---- MODULE Spec2Model ----
(***************************************************************************)
(* Strict Fibonacci heap (src/src/heap/sfib.rs) over the cyclic list of    *)
(* src/src/util/cyclic_list.rs.                                            *)
(*                                                                         *)
(* Nodes live in an arena (`nodes`, a sequence indexed by allocation       *)
(* order); a NodePtr is an index into it, Option::None is `None`.  The     *)
(* Rc<Cell<bool>> activity flags live in `flags`, indexed by cell id (a    *)
(* cell no heap holds reads TRUE, as a fresh one does).                    *)
(* CyclicList::new leaves the `next` link (and its RefCell borrow flag)    *)
(* uninitialised: such a link holds `Uninit`, and every access to it is a  *)
(* point where the build may abort (a panic or a fault) or go on with an   *)
(* arbitrary pointer.                                                      *)
(***************************************************************************)
EXTENDS Integers, Sequences, FiniteSets, TLC

\* ---------------------------------------------------------------- bounds
MaxNodes == 3      \* nodes ever allocated
MaxHeaps == 2      \* heap values the caller holds at once
MaxKey == 1        \* keys are 0..MaxKey

None == 0          \* Option::None (node, cell and list references start at 1)
Uninit == -1       \* a link left as mem::uninitialized()

UsizeBits == 3     \* width of usize in the model (the budgets of reduce)
MaxBudget == 2     \* budgets of reduce are 0..MaxBudget and the greatest usize

HeapIds == 1..MaxHeaps
Cells == 1..(MaxHeaps + 1)   \* one activity cell per heap value and one for Tmp
Tmp == 0           \* the slot of a callee's local heap (`other` in insert)
Keys == 0..MaxKey

VARIABLES
    heaps,      \* HeapIds -> Sfib record (live = FALSE: no such value)
    nodes,      \* arena of Node records together with their list links
    flags,      \* live activity cells: cell id -> BOOLEAN
    crashed,    \* the process panicked or faulted
    lastCall,   \* history: what the meld of the last call saw and did
    ghost,      \* history: HeapIds -> the keys inserted into the heap or melded
                \* into it, and whether insert calls alone built it
    fixes,      \* arena of Fix entries (node, rank) with their list links
    rd,         \* the frame of a reduce call (IdleFrame: none)
    ofm,        \* an Ofm: cells, occupied, leaf_size, size (order/ofm.rs)
    arr,        \* the array handed to a sort, and what the sort made of it
    iacono,     \* an Iacono tree: its buckets (tree/iacono.rs)
    ll          \* a LinkedList: its atoms and its ends (order/linked_list.rs)

\* the heap's variables, and those of the other modules of the crate; each
\* state machine runs one module and leaves the variables of the rest idle
sfib == <<heaps, nodes, flags, ghost, fixes, rd>>
others == <<ofm, arr, iacono, ll>>
vars == <<heaps, nodes, flags, crashed, lastCall, ghost, fixes, rd,
          ofm, arr, iacono, ll>>

OthersIdle == ofm = <<>> /\ arr = <<>> /\ iacono = <<>> /\ ll = <<>>

\* -------------------------------------------------------------- the world
\* The operators below translate the Rust functions as functions of a world
\* record W: the program state (heaps, nodes, flags, fixes), the build that
\* runs the call ("debug": debug_assert! and overflow checks are on, or
\* "release"), the choices made for undefined behaviour in this call (garbage:
\* the node an uninitialised pointer happens to address; lucky: every access
\* to uninitialised memory goes through, or else the first one aborts), ret
\* (the last bool returned), rd (the reduce frame), hist (what the call did,
\* for lastCall; hist.work counts the fields of nodes it wrote, the list
\* links it wrote and the reduction rules it called) and used (the call read
\* the garbage pointer).  Until a call aborts, a debug and a release build
\* behave alike, so the build is chosen with the call that may abort.
\* A call can also be run for every build and every luck at once (build
\* "any"): it goes the way of a lucky release build and notes in `aborts`
\* that another build, or less luck, would have aborted on the way.

Builds == {"debug", "release"}

NoHist ==
    [melded |-> FALSE, szSelf |-> 0, szOther |-> 0, minSelf |-> <<>>,
     minOther |-> <<>>, cSelf |-> None, cOther |-> None, preSelf |-> TRUE,
     preOther |-> TRUE, flagSelf |-> TRUE, flagOther |-> TRUE, written |-> {},
     work |-> 0, passive |-> TRUE]

IdleFrame ==
    [pc |-> "idle", h |-> Tmp, a |-> 0, b |-> 0, c |-> 0, d |-> 0, sum |-> 0,
     old_sum |-> 0, progress |-> FALSE, fires |-> 0, build |-> "release",
     a0 |-> 0, b0 |-> 0, c0 |-> 0, d0 |-> 0]

World(bld, g, lucky) ==
    [heaps |-> heaps, nodes |-> nodes, flags |-> flags,
     fixes |-> fixes, crashed |-> FALSE, build |-> bld, garbage |-> g, lucky |-> lucky,
     ret |-> FALSE, rd |-> rd, hist |-> NoHist, used |-> FALSE,
     aborts |-> FALSE]

\* Every operator that takes a world first takes its value (W \in {V}), so
\* that a world is computed once however often the operator reads it, and it
\* hands on unchanged the world of a call that has aborted.

\* panic!, or a fault: nothing after it runs
Abort(V) == CHOOSE r \in {[W EXCEPT !.crashed = TRUE] : W \in {V}} : TRUE

\* An access to uninitialised memory: it aborts or goes through.
MayAbort(V) ==
    CHOOSE r \in {(IF W.crashed THEN W
                   ELSE IF W.build = "any" THEN [W EXCEPT !.aborts = TRUE]
                   ELSE IF W.lucky THEN W
                   ELSE Abort(W)) : W \in {V}} : TRUE

\* a debug_assert! or an overflow check fails: a panic in a debug build,
\* nothing in a release build
DebugAbort(V) ==
    CHOOSE r \in {(IF W.crashed \/ W.build = "release" THEN W
                   ELSE IF W.build = "any" THEN [W EXCEPT !.aborts = TRUE]
                   ELSE Abort(W)) : W \in {V}} : TRUE

\* ------------------------------------------------------------ cyclic list
\* RefCell::borrow / borrow_mut of a node's `next` cell
TouchNext(V, n) ==
    CHOOSE r \in {(IF W.crashed THEN W
                   ELSE IF W.nodes[n].next = Uninit THEN MayAbort(W)
                   ELSE W) : W \in {V}} : TRUE

\* the read of an uninitialised pointer is noted
NoteUsed(V, n) ==
    CHOOSE r \in {(IF W.crashed \/ W.nodes[n].next # Uninit THEN W
                   ELSE [W EXCEPT !.used = TRUE]) : W \in {V}} : TRUE

\* self.next(): the borrow of the cell, for the read of NextOf
ReadNext(V, n) == NoteUsed(TouchNext(V, n), n)

\* the pointer read from a node's `next` cell
NextOf(W, n) ==
    IF W.nodes[n].next = Uninit THEN W.garbage ELSE W.nodes[n].next

\* the assignment of *n.next once the cell is borrowed
WriteNext(V, n, v) ==
    CHOOSE r \in {(IF W.crashed THEN W
                   ELSE [W EXCEPT !.nodes[n].next = v, !.hist.work = @ + 1])
                  : W \in {V}} : TRUE

\* *n.next.borrow_mut() = v (the old value is dropped first)
SetNext(V, n, v) == WriteNext(TouchNext(V, n), n, v)

\* *n.prev.borrow_mut() = v
SetPrev(V, n, v) ==
    CHOOSE r \in {(IF W.crashed THEN W
                   ELSE [W EXCEPT !.nodes[n].prev = v, !.hist.work = @ + 1])
                  : W \in {V}} : TRUE

\* Rc::new(Inner { item, prev: uninitialized, next: uninitialized })
alloc(V, item) ==
    CHOOSE r \in {(IF W.crashed THEN W
                   ELSE [W EXCEPT !.nodes = Append(@, [item EXCEPT
                             !.prev = Uninit, !.next = Uninit])]) : W \in {V}} :
        TRUE

\* the two ptr::write calls, both to `prev` of the node just allocated
write_prev_twice(V) ==
    CHOOSE r \in {(IF W.crashed THEN W
                   ELSE SetPrev(SetPrev(W, Len(W.nodes), Len(W.nodes)),
                                Len(W.nodes), Len(W.nodes))) : W \in {V}} : TRUE

\* CyclicList::new: both links start uninitialised; the two ptr::write calls
\* both go to `prev` (through borrow_mut of a RefCell whose borrow flag is
\* itself uninitialised), `next` is never written.
CyclicList_new(V, item) == write_prev_twice(MayAbort(alloc(V, item)))

\* Rc::ptr_eq(&self.0, &self.next().0), once `next` is borrowed
is_single(W, n) == NextOf(W, n) = n

\* debug_assert!(other.is_single())
assert_single(V, n) ==
    CHOOSE r \in {(IF W.crashed \/ W.build = "release" THEN W
                   ELSE IF W.nodes[n].next = Uninit THEN MayAbort(W)
                   ELSE IF W.nodes[n].next # n THEN DebugAbort(W)
                   ELSE W) : W \in {V}} : TRUE

\* only the next link of other is set
put_behind_next_only(V, self, other) == SetNext(V, other, self)

\* self.put_behind(other): *other.next = self; *self.prev = other
put_behind(V, self, other) == SetPrev(SetNext(V, other, self), self, other)

\* other.put_behind(self.clone()); next.put_behind(other), next read before
link_back(V, self, other) ==
    CHOOSE r \in {(IF W.crashed THEN W
                   ELSE put_behind(put_behind(W, other, self),
                                   NextOf(W, self), other)) : W \in {V}} : TRUE

push_back(V, self, other) ==
    link_back(ReadNext(assert_single(V, other), self), self, other)

\* other.put_behind(prev); self.put_behind(other), prev read before
link_front(V, self, other) ==
    CHOOSE r \in {(IF W.crashed THEN W
                   ELSE put_behind(put_behind(W, other, W.nodes[self].prev),
                                   self, other)) : W \in {V}} : TRUE

push_front(V, self, other) == link_front(assert_single(V, other), self, other)

\* the last node of the joined list is taken to be first itself
splice_back_short(V, self, first) ==
    CHOOSE r \in {(IF W.crashed THEN W
                   ELSE put_behind(put_behind(W, first, self),
                                   NextOf(W, self), first)) : W \in {V}} : TRUE

\* first.put_behind(self.clone()); next.put_behind(last), both read before
splice_back(V, self, first) ==
    CHOOSE r \in {(IF W.crashed THEN W
                   ELSE put_behind(put_behind(W, first, self),
                                   NextOf(W, self), W.nodes[first].prev))
                  : W \in {V}} : TRUE

extend_back(V, self, first) == splice_back(ReadNext(V, self), self, first)

\* first.put_behind(prev); self.put_behind(last), both read before
extend_front(V, self, first) ==
    CHOOSE r \in {(IF W.crashed THEN W
                   ELSE put_behind(put_behind(W, first, W.nodes[self].prev),
                                   self, W.nodes[first].prev)) : W \in {V}} :
        TRUE

\* only the next link of the node before is set
unlink_next_only(V, n) ==
    CHOOSE r \in {(IF W.crashed \/ is_single(W, n) THEN W
                   ELSE SetNext(W, W.nodes[n].prev, NextOf(W, n)))
                  : W \in {V}} : TRUE

\* self.next().put_behind(self.prev().clone()) unless self.is_single(): the
\* borrows of self's two links last to the end of the statement, so writing
\* one of them (self is its own prev) panics
unlink(V, n) ==
    CHOOSE r \in {(IF W.crashed \/ is_single(W, n) THEN W
                   ELSE IF W.nodes[n].prev = n THEN Abort(W)
                   ELSE put_behind(W, NextOf(W, n), W.nodes[n].prev))
                  : W \in {V}} : TRUE

remove(V, n) == unlink(ReadNext(V, n), n)

\* ------------------------------------------------------------------ nodes
RankNone == [tag |-> "None", val |-> 0]

\* Node::new with a flag in `active`
Node_new_flagged(key, val) ==
    [key |-> key, val |-> val, active |-> 1, rank |-> RankNone, loss |-> 0,
     parent |-> None, children |-> <<>>, prev |-> Uninit, next |-> Uninit]

Node_new(key, val) ==
    [key |-> key, val |-> val, active |-> None, rank |-> RankNone, loss |-> 0,
     parent |-> None, children |-> <<>>, prev |-> Uninit, next |-> Uninit]

Node_new_ptr(V, key, val) == CyclicList_new(V, Node_new(key, val))

is_active(W, n) ==
    IF W.nodes[n].active = None THEN FALSE ELSE W.flags[W.nodes[n].active]

is_passive(W, n) == ~is_active(W, n)

\* `parent` is parent.borrow().active.is_none(): whether the parent HOLDS a
\* flag, whatever the flag says
is_active_root(W, n) ==
    LET parent == IF W.nodes[n].parent # None
                  THEN W.nodes[W.nodes[n].parent].active = None
                  ELSE TRUE
    IN  is_active(W, n) /\ parent

\* position of child in node's children (unwrap panics when it is not there)
child_index(W, node, child) ==
    LET ch == W.nodes[node].children
        hits == {i \in 1..Len(ch) : ch[i] = child}
    IN  IF hits = {} THEN 0 ELSE CHOOSE i \in hits : \A j \in hits : i <= j

RemoveAt(seq, i) == SubSeq(seq, 1, i - 1) \o SubSeq(seq, i + 1, Len(seq))

child_remove(V, node, child) ==
    CHOOSE r \in {(IF W.crashed THEN W
                   ELSE IF child_index(W, node, child) = 0 THEN Abort(W)
                   ELSE [W EXCEPT !.nodes[node].children =
                            RemoveAt(@, child_index(W, node, child))])
                  : W \in {V}} : TRUE

\* ------------------------------------------------------------------ heaps
NoHeap ==
    [live |-> FALSE, size |-> 0, root |-> None, active |-> None, q |-> None,
     fix_multis |-> None, fix_singles |-> None]

\* the activity cells that some heap value holds (no node ever holds one)
LiveCells(hs) == {hs[h].active : h \in {x \in DOMAIN hs : hs[x].live}}

\* the lowest address that is free
FreeCell(hs) ==
    CHOOSE x \in Cells \ LiveCells(hs) : \A y \in Cells \ LiveCells(hs) : x <= y

\* one activity cell shared by all heaps
Sfib_new_shared(V, slot) ==
    [V EXCEPT !.flags[1] = TRUE,
              !.heaps[slot] = [NoHeap EXCEPT !.live = TRUE, !.active = 1]]

\* Sfib::new into a slot: a fresh activity cell, Rc::new(Cell::new(true));
\* the allocator hands out the lowest free address
Sfib_new(V, slot) ==
    CHOOSE r \in {[W EXCEPT !.flags[FreeCell(W.heaps)] = TRUE,
                            !.heaps[slot] = [NoHeap EXCEPT !.live = TRUE,
                                 !.active = FreeCell(W.heaps)]] : W \in {V}} :
        TRUE

\* A heap value goes out of scope: its activity cell, which no node holds, is
\* freed with it.
drop_heap(V, slot) == [V EXCEPT !.heaps[slot] = NoHeap]

\* Option<K> as a sequence: <<>> is None, <<k>> is Some(k)
min_key(W, h) ==
    IF W.heaps[h].root = None THEN <<>> ELSE <<W.nodes[W.heaps[h].root].key>>

\* the value of the node allocated first, whichever heap it is in
min_val_first(W, h) ==
    IF W.heaps[h].root = None THEN <<>> ELSE <<W.nodes[1].val>>

min_val(W, h) ==
    IF W.heaps[h].root = None THEN <<>> ELSE <<W.nodes[W.heaps[h].root].val>>

\* Option<Element>: the node itself
min_node(W, h) ==
    IF W.heaps[h].root = None THEN <<>> ELSE <<W.heaps[h].root>>

\* Cell::set(false) on an activity cell
set_passive(V, c) ==
    [V EXCEPT !.flags[c] = FALSE, !.hist.written = @ \cup {c}]

\* ------------------------------------------------- links between tree nodes
\* RankDesc::increase and RankDesc::decrease are unimplemented!()
rank_increase(V, n) == Abort(V)

rank_decrease(V, n) == Abort(V)

\* `if let Some(parent) = x.parent.take()`: x leaves its parent's children
link_detach(V, x, active) ==
    CHOOSE r \in {(IF W.crashed \/ W.nodes[x].parent = None THEN W
                   ELSE IF active
                   THEN rank_decrease(
                            child_remove([W EXCEPT !.nodes[x].parent = None],
                                         W.nodes[x].parent, x),
                            W.nodes[x].parent)
                   ELSE child_remove([W EXCEPT !.nodes[x].parent = None],
                                     W.nodes[x].parent, x)) : W \in {V}} : TRUE

\* x.parent = Some(y), and x joins y's children at the front or the back
link_attach(V, x, y, active) ==
    CHOOSE r \in {(IF W.crashed THEN W
                   ELSE IF active
                   THEN rank_increase([W EXCEPT !.nodes[x].parent = y,
                                          !.nodes[y].children = <<x>> \o @], y)
                   ELSE [W EXCEPT !.nodes[x].parent = y,
                             !.nodes[y].children = Append(@, x)]) : W \in {V}} :
        TRUE

link(V, x, y) ==
    CHOOSE r \in {(IF W.crashed THEN W
                   ELSE link_attach(link_detach(W, x, is_active(W, x)), x, y,
                                    is_active(W, x))) : W \in {V}} : TRUE

\* x.parent = Some(y); y.children.push_back(x)
reparent_attach(V, x, y, held) ==
    CHOOSE r \in {(IF W.crashed THEN W
                   ELSE IF y = held THEN Abort([W EXCEPT !.nodes[x].parent = y])
                   ELSE [W EXCEPT !.nodes[x].parent = y,
                             !.nodes[y].children = Append(@, x)]) : W \in {V}} :
        TRUE

\* `held` is the node the caller holds a RefMut of while reparent runs:
\* borrowing that node again panics.
reparent_assert(V, x, held) ==
    CHOOSE r \in {(IF W.crashed THEN W
                   ELSE IF x = held THEN Abort(W)
                   ELSE IF ~is_passive(W, x) THEN DebugAbort(W)
                   ELSE W) : W \in {V}} : TRUE

reparent_move(V, x, y, held) ==
    CHOOSE r \in {(IF W.crashed THEN W
                   ELSE IF W.nodes[x].parent = None THEN W
                   ELSE IF W.nodes[x].parent = held
                   THEN Abort([W EXCEPT !.nodes[x].parent = None])
                   ELSE reparent_attach(
                            child_remove([W EXCEPT !.nodes[x].parent = None],
                                         W.nodes[x].parent, x),
                            x, y, held)) : W \in {V}} : TRUE

reparent(V, x, y, held) ==
    reparent_move(reparent_assert(V, x, held), x, y, held)

\* ------------------------------------------------------- reduction rules
\* the pointer read from a Fix entry's `next` cell (a FixPtr is a CyclicList)
NextOfFix(W, f) ==
    IF W.fixes[f].next = Uninit THEN W.garbage ELSE W.fixes[f].next

TouchNextFix(V, f) ==
    CHOOSE r \in {(IF ~W.crashed /\ W.fixes[f].next = Uninit
                   THEN [MayAbort(W) EXCEPT !.used = TRUE] ELSE W)
                  : W \in {V}} : TRUE

Return(V, b) ==
    CHOOSE r \in {(IF W.crashed THEN W ELSE [W EXCEPT !.ret = b]) : W \in {V}} :
        TRUE

\* `if borrow.children.back().unwrap().borrow().is_passive()`, lo being x.node
arr_mixed(V, h, lo) ==
    CHOOSE r \in {(
        LET ch == W.nodes[lo].children
            z == ch[Len(ch)]
        IN  IF W.crashed THEN W
            ELSE IF ch = <<>> \/ z = lo THEN Abort(W)
            ELSE IF is_passive(W, z)
                 THEN IF W.heaps[h].root = None THEN Abort(W)
                      ELSE Return(reparent(
                               [W EXCEPT !.nodes[lo].children =
                                    SubSeq(ch, 1, Len(ch) - 1)],
                               z, W.heaps[h].root, lo), TRUE)
                 ELSE Return(W, TRUE)) : W \in {V}} : TRUE

\* `let y = x.next().clone()` has borrowed; the comparison and the link
arr_pair(V, h, x) ==
    CHOOSE r \in {(
        LET y == NextOfFix(W, x)
            xn == W.fixes[x].node
            yn == W.fixes[y].node
            lo == IF W.nodes[xn].key < W.nodes[yn].key THEN xn ELSE yn
            hi == IF W.nodes[xn].key < W.nodes[yn].key THEN yn ELSE xn
        IN  IF W.crashed THEN W
            ELSE IF y \notin 1..Len(W.fixes) THEN Abort(W)
            ELSE IF x = y \/ W.fixes[x].rank # W.fixes[y].rank
                 THEN Return(W, FALSE)
            ELSE arr_mixed(link(W, hi, lo), h, lo)) : W \in {V}} : TRUE

\* `multis.next().clone()` has borrowed; x is read
arr_first(V, h, multis) ==
    CHOOSE r \in {(
        LET x == NextOfFix(W, multis)
        IN  IF W.crashed THEN W
            ELSE IF x \notin 1..Len(W.fixes) THEN Abort(W)
            ELSE arr_pair(TouchNextFix(W, x), h, x)) : W \in {V}} : TRUE

active_root_reduction(V, h) ==
    CHOOSE r \in {(IF W.crashed THEN W
                   ELSE IF W.heaps[h].fix_multis = None THEN Return(W, FALSE)
                   ELSE arr_first(TouchNextFix(W, W.heaps[h].fix_multis), h,
                                  W.heaps[h].fix_multis)) : W \in {V}} : TRUE

root_degree_reduction(V, h) == Return(V, TRUE)

one_node_loss_reduction(V, h) == Return(V, TRUE)

two_node_loss_reduction(V, h) == Return(V, TRUE)

\* ------------------------------------------------------------------ reduce
USize == 2 ^ UsizeBits

\* sum = a + b + c + d in usize: an overflow panics in a debug build and
\* wraps in a release build
set_sum(V) ==
    CHOOSE r \in {(
        LET t == W.rd.a + W.rd.b + W.rd.c + W.rd.d
        IN  IF W.crashed THEN W
            ELSE IF t >= USize
            THEN DebugAbort([W EXCEPT !.rd.sum = t % USize])
            ELSE [W EXCEPT !.rd.sum = t % USize]) : W \in {V}} : TRUE

\* only the budget of the second rule is ever decremented
rule_done_b_only(V, x) ==
    CHOOSE r \in {(IF W.crashed \/ ~W.ret THEN W
                   ELSE [W EXCEPT !.rd[x] = IF x = "b" THEN @ - 1 ELSE @,
                                  !.rd.fires = @ + 1]) : W \in {V}} : TRUE

\* `if x > 0 { if self.rule() { x -= 1 } }` once the rule has returned
rule_done(V, x) ==
    CHOOSE r \in {(IF W.crashed \/ ~W.ret THEN W
                   ELSE [W EXCEPT !.rd[x] = @ - 1, !.rd.fires = @ + 1])
                  : W \in {V}} : TRUE

\* progress if at least one thing happened
progress_made(sum, old_sum) == sum < old_sum

\* a reduction rule is called
attempt(V) == [V EXCEPT !.hist.work = @ + 1]

\* if a > 0 { if self.active_root_reduction() { a -= 1 } }
try_a(V, h) ==
    CHOOSE r \in {(IF ~W.crashed /\ W.rd.a > 0
                   THEN rule_done(active_root_reduction(attempt(W), h), "a")
                   ELSE W)
                  : W \in {V}} : TRUE

\* if b > 0 { if self.root_degree_reduction() { b -= 1 } }
try_b(V, h) ==
    CHOOSE r \in {(IF ~W.crashed /\ W.rd.b > 0
                   THEN rule_done(root_degree_reduction(attempt(W), h), "b")
                   ELSE W)
                  : W \in {V}} : TRUE

\* if c > 0 { if self.one_node_loss_reduction() { c -= 1 } }
try_c(V, h) ==
    CHOOSE r \in {(IF ~W.crashed /\ W.rd.c > 0
                   THEN rule_done(one_node_loss_reduction(attempt(W), h), "c")
                   ELSE W)
                  : W \in {V}} : TRUE

\* if d > 0 { if self.two_node_loss_reduction() { d -= 1 } }
try_d(V, h) ==
    CHOOSE r \in {(IF ~W.crashed /\ W.rd.d > 0
                   THEN rule_done(two_node_loss_reduction(attempt(W), h), "d")
                   ELSE W)
                  : W \in {V}} : TRUE

\* let old_sum = sum
keep_old_sum(V) ==
    CHOOSE r \in {(IF W.crashed THEN W ELSE [W EXCEPT !.rd.old_sum = W.rd.sum])
                  : W \in {V}} : TRUE

\* progress = sum < old_sum
set_progress(V) ==
    CHOOSE r \in {(IF W.crashed THEN W
                   ELSE [W EXCEPT !.rd.progress =
                            progress_made(W.rd.sum, W.rd.old_sum)])
                  : W \in {V}} : TRUE

\* one pass of the body of the while loop
reduce_pass(V, h) ==
    set_progress(set_sum(keep_old_sum(
        try_d(try_c(try_b(try_a(V, h), h), h), h))))

\* the frame on entry: progress = true, sum = a + b + c + d
\* the budget of the second rule is the size of the heap
reduce_enter_sized(V, h, a, b, c, d) ==
    CHOOSE r \in {(IF W.crashed THEN W
                   ELSE set_sum([W EXCEPT !.rd = [IdleFrame EXCEPT
                            !.pc = "loop", !.h = h, !.build = W.build,
                            !.a = a, !.b = W.heaps[h].size, !.c = c, !.d = d,
                            !.progress = TRUE, !.a0 = a,
                            !.b0 = W.heaps[h].size, !.c0 = c, !.d0 = d]]))
                  : W \in {V}} : TRUE

reduce_enter(V, h, a, b, c, d) ==
    CHOOSE r \in {(IF W.crashed THEN W
                   ELSE set_sum([W EXCEPT !.rd = [IdleFrame EXCEPT
                            !.pc = "loop", !.h = h, !.build = W.build,
                            !.a = a, !.b = b, !.c = c, !.d = d,
                            !.progress = TRUE,
                            !.a0 = a, !.b0 = b, !.c0 = c, !.d0 = d]]))
                  : W \in {V}} : TRUE

\* while progress & (sum > 0)
loop_cond(r) == r.progress /\ r.sum > 0

\* the loop is left and reduce returns
reduce_return(V) == [V EXCEPT !.rd.pc = "done"]

RECURSIVE reduce_loop(_, _)
reduce_loop(V, h) ==
    CHOOSE r \in {(IF W.crashed THEN W
                   ELSE IF loop_cond(W.rd) THEN reduce_loop(reduce_pass(W, h), h)
                   ELSE reduce_return(W)) : W \in {V}} : TRUE

reduce(V, h, a, b, c, d) == reduce_loop(reduce_enter(V, h, a, b, c, d), h)

\* -------------------------------------------------------------------- meld
\* the comparison turned around
smaller_is_self_gt(self_size, other_size) == self_size > other_size

\* `if self.size <= other.size`: self is the side made passive
smaller_is_self(self_size, other_size) == self_size <= other_size

\* the size of self left as it was
combine_sizes_self(self_size, other_size) == self_size

\* the size of other taken over
combine_sizes_other(self_size, other_size) == other_size

\* self.size += other.size
combine_sizes(self_size, other_size) == self_size + other_size

\* the greater key wins
key_gt(ukey, vkey) == ukey > vkey

\* `u.borrow().key < v.borrow().key`: u stays the root
key_lt(ukey, vkey) == ukey < vkey

\* u put under v
make_child_swapped(V, u, v) ==
    [V EXCEPT !.nodes[u].parent = v, !.nodes[v].children = Append(@, u)]

\* v pushed to the children of u, its parent reference left alone
make_child_no_parent(V, u, v) ==
    [V EXCEPT !.nodes[u].children = Append(@, v)]

\* let u be root, and v its child
make_child(V, u, v) ==
    [V EXCEPT !.nodes[v].parent = u, !.nodes[u].children = Append(@, v),
              !.hist.work = @ + 2]

\* history: what meld finds when both heaps have a root (self and other are
\* the two heap values as the call found them)
meld_seen(V, h, o, self, other) ==
    CHOOSE r \in {[W EXCEPT !.hist.melded = TRUE,
                      !.hist.szSelf = self.size, !.hist.szOther = other.size,
                      !.hist.minSelf = min_key(W, h),
                      !.hist.minOther = min_key(W, o),
                      !.hist.cSelf = self.active, !.hist.cOther = other.active,
                      !.hist.preSelf = W.flags[self.active],
                      !.hist.preOther = W.flags[other.active]] : W \in {V}} :
        TRUE

\* the two debug_assert!s: both roots are passive (hist.passive: they were)
meld_asserts(V, self, other) ==
    CHOOSE r \in {(IF W.crashed THEN W
                   ELSE IF ~(is_passive(W, self.root)
                             /\ is_passive(W, other.root))
                   THEN DebugAbort([W EXCEPT !.hist.passive = FALSE])
                   ELSE W) : W \in {V}} : TRUE

\* make all nodes of smaller heap passive
meld_passive(V, self, other) ==
    CHOOSE r \in {(IF W.crashed THEN W
                   ELSE IF smaller_is_self(self.size, other.size)
                   THEN set_passive(W, self.active)
                   ELSE set_passive(W, other.active)) : W \in {V}} : TRUE

\* combine sizes; both roots are taken
meld_sizes(V, h, o, self, other) ==
    CHOOSE r \in {(IF W.crashed THEN W
                   ELSE [W EXCEPT
                            !.heaps[h].size = combine_sizes(self.size, other.size),
                            !.heaps[h].root = None, !.heaps[o].root = None])
                  : W \in {V}} : TRUE

\* rename u/v such that u < v
meld_u(W, self, other) ==
    IF key_lt(W.nodes[self.root].key, W.nodes[other.root].key)
    THEN self.root ELSE other.root

meld_v(W, self, other) ==
    IF key_lt(W.nodes[self.root].key, W.nodes[other.root].key)
    THEN other.root ELSE self.root

\* let u be root, and v its child; both queues are taken
meld_roots(V, h, o, self, other) ==
    CHOOSE r \in {(IF W.crashed THEN W
                   ELSE [make_child(W, meld_u(W, self, other),
                                    meld_v(W, self, other))
                            EXCEPT !.heaps[h].root = meld_u(W, self, other),
                                   !.heaps[h].q = None, !.heaps[o].q = None])
                  : W \in {V}} : TRUE

\* self.q = Some(q)
set_q(V, h, q) ==
    CHOOSE r \in {(IF W.crashed THEN W ELSE [W EXCEPT !.heaps[h].q = q])
                  : W \in {V}} : TRUE

\* the match on (self.q.take(), other.q.take()) with v the demoted root
meld_queues(V, h, a, b, v) ==
    CHOOSE r \in {(IF W.crashed THEN W
                   ELSE IF a # None /\ b # None
                   THEN set_q(extend_back(push_back(W, a, v), a, b), h, a)
                   ELSE IF a # None THEN set_q(push_back(W, a, v), h, a)
                   ELSE IF b # None THEN set_q(extend_back(W, v, b), h, v)
                   ELSE set_q(W, h, v)) : W \in {V}} : TRUE

\* meld returns: history of the flags it leaves, and other is dropped
meld_end(V, o, self, other) ==
    CHOOSE r \in {(IF W.crashed THEN W
                   ELSE drop_heap([W EXCEPT
                            !.hist.flagSelf = W.flags[self.active],
                            !.hist.flagOther = W.flags[other.active]], o))
                  : W \in {V}} : TRUE

\* meld when both heaps have a root
meld_both(V, h, o, self, other) ==
    meld_end(
        reduce(
            meld_queues(
                meld_roots(
                    meld_sizes(
                        meld_passive(
                            meld_asserts(meld_seen(V, h, o, self, other),
                                         self, other),
                            self, other),
                        h, o, self, other),
                    h, o, self, other),
                h, self.q, other.q, meld_v(V, self, other)),
            h, 1, 1, 0, 0),
        o, self, other)

\* only the tree of other is taken
take_other_tree(V, h, o) ==
    CHOOSE r \in {[W EXCEPT !.heaps[h].root = W.heaps[o].root,
                            !.heaps[h].size = W.heaps[o].size,
                            !.heaps[o] = NoHeap] : W \in {V}} : TRUE

\* `*self = other`: every field of self is now that of other (what self
\* held is dropped)
take_other(V, h, o) ==
    CHOOSE r \in {[W EXCEPT !.heaps[h] = W.heaps[o], !.heaps[o] = NoHeap]
                  : W \in {V}} : TRUE

\* self.meld(other), self in slot h and other (moved in) in slot o
meld(V, h, o) ==
    CHOOSE r \in {(IF W.crashed THEN W
                   ELSE IF W.heaps[o].root = None THEN drop_heap(W, o)
                   ELSE IF W.heaps[h].root = None THEN take_other(W, h, o)
                   ELSE meld_both(W, h, o, W.heaps[h], W.heaps[o]))
                  : W \in {V}} : TRUE

\* ------------------------------------------------------------------ insert
\* self.root = Some(root.clone()); self.size = 1
set_root(V, h) ==
    CHOOSE r \in {(IF W.crashed THEN W
                   ELSE [W EXCEPT !.heaps[h].root = Len(W.nodes),
                                  !.heaps[h].size = 1]) : W \in {V}} : TRUE

RECURSIVE insert(_, _, _, _)
insert(V, h, key, val) ==
    CHOOSE r \in {(IF W.crashed THEN W
                   ELSE IF W.heaps[h].root = None
                   THEN set_root(Node_new_ptr(W, key, val), h)
                   ELSE meld(insert(Sfib_new(W, Tmp), Tmp, key, val), h,
                             Tmp))
                  : W \in {V}} : TRUE

\* ------------------------------------------------------ the state machine
\* lastCall: melded says that the last call melded two non-empty heaps, h is
\* the slot of the heap it melded into (Tmp when it did not), sz, min and
\* pre are the sizes, minimum keys and flags the meld found, flag the flags it
\* left, wrote whether it wrote the flag, byInsert whether insert calls alone
\* had built self, work the count of hist.work, passive whether the two
\* roots were passive where meld asserts it, and revived whether the call
\* (of any kind) left true a flag, or active a node, that it found false or
\* passive.
NoCall ==
    [h |-> Tmp, melded |-> FALSE, szSelf |-> 0, szOther |-> 0,
     minSelf |-> <<>>, minOther |-> <<>>, preSelf |-> TRUE, preOther |-> TRUE,
     flagSelf |-> TRUE, flagOther |-> TRUE, wroteSelf |-> FALSE,
     wroteOther |-> FALSE, byInsert |-> FALSE, revived |-> FALSE, work |-> 0,
     passive |-> TRUE]

\* ghost: queued is the set of nodes that meld calls put into the heap's
\* queue (`self.q = Some(v)`, or a push_back of v), those of a melded heap
\* included
NoGhost == [keys |-> {}, byInsert |-> TRUE, queued |-> {}]

\* the root that the meld ending in W made a child: of the two roots it
\* found, the one that is not the root now
Demoted(W, h, rs, ro) ==
    IF rs = None \/ ro = None THEN {} ELSE {rs, ro} \ {W.heaps[h].root}

Init ==
    /\ heaps = [h \in {Tmp} \cup HeapIds |-> NoHeap]
    /\ nodes = <<>>
    /\ flags = [c \in Cells |-> TRUE]
    /\ fixes = <<>>
    /\ crashed = FALSE
    /\ lastCall = NoCall
    /\ ghost = [h \in HeapIds |-> NoGhost]
    /\ rd = IdleFrame
    /\ OthersIdle

\* What a call leaves behind.  A call that aborts leaves nothing: the
\* process is gone, and with it its memory.
Outcome(W) ==
    IF W.crashed
    THEN [heaps |-> [h \in {Tmp} \cup HeapIds |-> NoHeap], nodes |-> <<>>,
          flags |-> [c \in Cells |-> TRUE], fixes |-> <<>>, crashed |-> TRUE,
          rd |-> IdleFrame, hist |-> NoHist]
    ELSE [heaps |-> W.heaps, nodes |-> W.nodes, flags |-> W.flags,
          fixes |-> W.fixes, crashed |-> FALSE, rd |-> IdleFrame,
          hist |-> W.hist]

\* Every way a call can end from the current state: with each node the
\* garbage pointer may address (when the call reads it: full is the call run
\* through), and run through or aborted on the way, where a build or a
\* choice would have it so.  (An abort leaves the same nothing wherever it
\* happens.)
Garbage(full) == IF full.used THEN 1..Len(full.nodes) ELSE {1}

\* The caller's names for its heap values and the addresses of the activity
\* cells carry no meaning, so a state is kept up to renaming: the heaps are
\* numbered by the age of their root (empty ones next, free slots last) and
\* the cell of the heap in slot p is cell p (Tmp's is the last cell).
SortKey(hs, x) ==
    IF ~hs[x].live THEN MaxNodes + 2
    ELSE IF hs[x].root = None THEN MaxNodes + 1 ELSE hs[x].root

Pos(hs, x) ==
    1 + Cardinality({y \in HeapIds :
            \/ SortKey(hs, y) < SortKey(hs, x)
            \/ SortKey(hs, y) = SortKey(hs, x) /\ y < x})

At(hs, p) == IF p = Tmp THEN Tmp ELSE CHOOSE x \in HeapIds : Pos(hs, x) = p

CellOf(p) == IF p = Tmp THEN MaxHeaps + 1 ELSE p

\* The call that ends in W left true the flag of a cell that was false when
\* it began, or active a node that was passive.
Revived(W) ==
    \/ \E c \in LiveCells(heaps) \cap LiveCells(W.heaps) :
          ~flags[c] /\ W.flags[c]
    \/ \E n \in 1..Len(nodes) :
          is_passive(World("release", 1, TRUE), n) /\ is_active(W, n)

\* the state a call leaves behind; gh is the ghost it leaves
Commit(W, h, gh) ==
    /\ heaps' = [p \in {Tmp} \cup HeapIds |->
                    LET x == W.heaps[At(W.heaps, p)]
                    IN  IF x.live THEN [x EXCEPT !.active = CellOf(p)] ELSE x]
    /\ flags' = [c \in Cells |->
                    LET p == IF c = MaxHeaps + 1 THEN Tmp ELSE c
                        x == W.heaps[At(W.heaps, p)]
                    IN  IF x.live THEN W.flags[x.active] ELSE TRUE]
    /\ ghost' = [p \in HeapIds |->
                    IF W.crashed \/ ~W.heaps[At(W.heaps, p)].live THEN NoGhost
                    ELSE gh[At(W.heaps, p)]]
    /\ nodes' = W.nodes   \* no node holds a cell: Node::new sets active: None
    /\ fixes' = W.fixes
    /\ crashed' = W.crashed
    /\ rd' = IdleFrame   \* the frame of a reduce call ends with the call
    /\ UNCHANGED others
    /\ lastCall' =
          [h |-> IF W.hist.melded THEN Pos(W.heaps, h) ELSE Tmp,
           melded |-> W.hist.melded,
           szSelf |-> W.hist.szSelf, szOther |-> W.hist.szOther,
           minSelf |-> W.hist.minSelf, minOther |-> W.hist.minOther,
           preSelf |-> W.hist.preSelf, preOther |-> W.hist.preOther,
           flagSelf |-> W.hist.flagSelf, flagOther |-> W.hist.flagOther,
           wroteSelf |-> W.hist.melded /\ W.hist.cSelf \in W.hist.written,
           wroteOther |-> W.hist.melded /\ W.hist.cOther \in W.hist.written,
           byInsert |-> W.hist.melded /\ ghost[h].byInsert,
           revived |-> ~W.crashed /\ Revived(W),
           work |-> IF W.hist.melded THEN W.hist.work ELSE 0,
           passive |-> W.hist.passive]

\* how a call run for every build at once (r) can have ended
Ends(V) ==
    UNION {(IF r.aborts THEN {Outcome(r), Outcome(Abort(r))}
            ELSE {Outcome(r)}) : r \in {V}}

NewOutcomes(h) == Ends(Sfib_new(World("any", 1, TRUE), h))

\* The values the caller inserts are the serial numbers of its insert calls:
\* every node holds a value of its own.
NextVal == Len(nodes) + 1

InsertOutcomes(h, key) ==
    UNION {Ends(p) \cup UNION {Ends(insert(World("any", g, TRUE), h, key,
                                            NextVal)) : g \in Garbage(p) \ {1}}
           : p \in {insert(World("any", 1, TRUE), h, key, NextVal)}}

MeldOutcomes(h, o) ==
    UNION {Ends(p) \cup UNION {Ends(meld(World("any", g, TRUE), h, o))
                                  : g \in Garbage(p) \ {1}}
           : p \in {meld(World("any", 1, TRUE), h, o)}}

\* let h = Sfib::new()
New(h) ==
    /\ ~crashed
    /\ ~heaps[h].live
    /\ \A x \in HeapIds : x < h => heaps[x].live
    /\ \E W \in NewOutcomes(h) : Commit(W, h, ghost)

\* h.insert(key, NextVal)
Insert(h, key) ==
    /\ ~crashed
    /\ heaps[h].live
    /\ Len(nodes) < MaxNodes
    /\ \E W \in InsertOutcomes(h, key) :
          Commit(W, h,
                 IF W.crashed THEN ghost
                 ELSE [ghost EXCEPT ![h].keys = @ \cup {key},
                                    ![h].queued = @ \cup
                                        Demoted(W, h, heaps[h].root,
                                                Len(nodes) + 1)])

\* The keys of both heaps; built by insert calls alone if one of the two was
\* and the other held nothing.
meld_ghost(gs, go, demoted) ==
    [keys |-> gs.keys \cup go.keys,
     queued |-> gs.queued \cup go.queued \cup demoted,
     byInsert |-> IF go.keys = {} THEN gs.byInsert
                  ELSE IF gs.keys = {} THEN go.byInsert ELSE FALSE]

\* h.meld(o): o is moved into the call
Meld(h, o) ==
    /\ ~crashed
    /\ h # o
    /\ heaps[h].live
    /\ heaps[o].live
    /\ \E W \in MeldOutcomes(h, o) :
          Commit(W, h,
                 IF W.crashed THEN ghost
                 ELSE [ghost EXCEPT ![h] = meld_ghost(ghost[h], ghost[o],
                                               Demoted(W, h, heaps[h].root,
                                                       heaps[o].root)),
                                    ![o] = NoGhost])

Next ==
    \/ \E h \in HeapIds : New(h)
    \/ \E h \in HeapIds, key \in Keys : Insert(h, key)
    \/ \E h \in HeapIds, o \in HeapIds : Meld(h, o)

Spec == Init /\ [][Next]_vars

\* ------------------------------------------- reduce, one loop pass a step
\* The second state machine runs reduce on its own: a call with any budgets
\* on a heap grown by insert calls, one pass of its loop at a time.
Budgets == (0..MaxBudget) \cup {USize - 1}

World0 ==
    [heaps |-> [h \in {Tmp} \cup HeapIds |-> NoHeap], nodes |-> <<>>,
     flags |-> [c \in Cells |-> TRUE], fixes |-> <<>>, crashed |-> FALSE,
     build |-> "release", garbage |-> 1, lucky |-> TRUE, ret |-> FALSE,
     rd |-> IdleFrame, hist |-> NoHist, used |-> FALSE, aborts |-> FALSE]

\* let h = Sfib::new() followed by h.insert(0, 1), ..., h.insert(0, n)
RECURSIVE Built(_)
Built(n) == IF n = 0 THEN Sfib_new(World0, 1) ELSE insert(Built(n - 1), 1, 0, n)

InitReduce ==
    \E n \in 0..(MaxNodes - 1) :
        LET W == Built(n)
        IN  /\ heaps = W.heaps
            /\ nodes = W.nodes
            /\ flags = W.flags
            /\ fixes = W.fixes
            /\ crashed = FALSE
            /\ lastCall = NoCall
            /\ ghost = [h \in HeapIds |-> NoGhost]
            /\ rd = IdleFrame
            /\ OthersIdle

\* what a step of reduce leaves behind
ReduceStep(W) ==
    /\ heaps' = W.heaps
    /\ nodes' = W.nodes
    /\ flags' = W.flags
    /\ fixes' = W.fixes
    /\ crashed' = W.crashed
    /\ rd' = IF W.crashed THEN IdleFrame ELSE W.rd
    /\ UNCHANGED <<lastCall, ghost, others>>

\* self.reduce(a, b, c, d) is entered
ReduceCall(bld, a, b, c, d) ==
    /\ ~crashed
    /\ rd.pc = "idle"
    /\ \E W \in {reduce_enter(World(bld, 1, TRUE), 1, a, b, c, d)} :
          ReduceStep(W)

\* the loop condition holds and the body runs once
ReducePass ==
    /\ ~crashed
    /\ rd.pc = "loop"
    /\ loop_cond(rd)
    /\ \E W \in {reduce_pass(World(rd.build, 1, lucky), rd.h) :
                       lucky \in BOOLEAN} : ReduceStep(W)

\* the loop condition fails and reduce returns
ReduceReturn ==
    /\ ~crashed
    /\ rd.pc = "loop"
    /\ ~loop_cond(rd)
    /\ \E W \in {reduce_return(World(rd.build, 1, TRUE))} : ReduceStep(W)

NextReduce ==
    \/ \E bld \in Builds, a \in Budgets, b \in Budgets, c \in Budgets,
          d \in Budgets : ReduceCall(bld, a, b, c, d)
    \/ ReducePass
    \/ ReduceReturn

\* a call that has started goes on running
SpecReduce ==
    InitReduce /\ [][NextReduce]_vars
        /\ WF_vars(ReducePass) /\ WF_vars(ReduceReturn)

\* ---------------------------------------- node functions, on drawn inputs
\* The third state machine applies is_active_root and two reduction rules to
\* inputs that insert and meld never build (they set no node's flag and no
\* fix list): a root (node 1) and two more nodes, each holding no flag, the
\* heap's flag (cell 1) or another heap's (cell 2), the two either children
\* of the root or parentless, and a fix list of two entries for them.
\* lastCall is here the call just made: op, the node n it was about, what it
\* returned, the number of children of the root before it, and whether the
\* two fix entries had equal rank.
NoNodeCall ==
    [op |-> "none", n |-> None, ret |-> FALSE, before |-> 0, pre |-> FALSE]

Holds == {None, 1, 2}

Ranks == 0..1

DrawnNode(id, key, active, parent, children) ==
    [Node_new(key, id) EXCEPT !.active = active, !.parent = parent,
                          !.children = children, !.prev = id]

DrawnFix(node, rank, other) ==
    [node |-> node, rank |-> rank, prev |-> other, next |-> other]

InitNode ==
    \E k2 \in Keys, k3 \in Keys, a1 \in Holds, a2 \in Holds, a3 \in Holds,
       f1 \in BOOLEAN, f2 \in BOOLEAN, p2 \in {None, 1}, p3 \in {None, 1},
       r2 \in Ranks, r3 \in Ranks :
        /\ nodes = <<DrawnNode(1, 0, a1, None,
                               (IF p2 = 1 THEN <<2>> ELSE <<>>)
                                   \o (IF p3 = 1 THEN <<3>> ELSE <<>>)),
                     DrawnNode(2, k2, a2, p2, <<>>),
                     DrawnNode(3, k3, a3, p3, <<>>)>>
        /\ fixes = <<DrawnFix(2, r2, 2), DrawnFix(3, r3, 1)>>
        /\ heaps = [h \in {Tmp} \cup HeapIds |->
                       IF h = 1
                       THEN [NoHeap EXCEPT !.live = TRUE, !.size = 3,
                                !.root = 1, !.active = 1, !.fix_multis = 1]
                       ELSE NoHeap]
        /\ flags = [c \in Cells |-> IF c = 1 THEN f1 ELSE IF c = 2 THEN f2
                                    ELSE TRUE]
        /\ crashed = FALSE
        /\ lastCall = NoNodeCall
        /\ ghost = [h \in HeapIds |-> NoGhost]
        /\ rd = IdleFrame
        /\ OthersIdle

\* what a call leaves behind (a call that aborts: what it found)
NodeStep(W, call) ==
    /\ nodes' = IF W.crashed THEN nodes ELSE W.nodes
    /\ crashed' = W.crashed
    /\ lastCall' = call
    /\ UNCHANGED <<heaps, flags, fixes, ghost, rd, others>>

\* node.borrow().is_active_root()
IsActiveRoot(n) ==
    /\ ~crashed
    /\ \E W \in {World("release", 1, TRUE)} :
          NodeStep(W, [NoNodeCall EXCEPT !.op = "is_active_root", !.n = n,
                                         !.ret = is_active_root(W, n)])

\* self.active_root_reduction()
ArrCall(bld) ==
    /\ ~crashed
    /\ \E W \in {active_root_reduction(World(bld, 1, TRUE), 1)} :
          NodeStep(W, [NoNodeCall EXCEPT !.op = "active_root_reduction",
                          !.ret = ~W.crashed /\ W.ret,
                          !.pre = (fixes[1].rank = fixes[2].rank)])

\* self.root_degree_reduction()
RdrCall(bld) ==
    /\ ~crashed
    /\ \E W \in {root_degree_reduction(World(bld, 1, TRUE), 1)} :
          NodeStep(W, [NoNodeCall EXCEPT !.op = "root_degree_reduction",
                          !.n = heaps[1].root, !.ret = W.ret,
                          !.before = Len(nodes[heaps[1].root].children)])

NextNode ==
    \/ \E n \in 1..3 : IsActiveRoot(n)
    \/ \E bld \in Builds : ArrCall(bld)
    \/ \E bld \in Builds : RdrCall(bld)

SpecNode == InitNode /\ [][NextNode]_vars

\* the nodes met from q by following `next` as far as it is initialised
Circle(ns, q) ==
    LET F[i \in 0..Len(ns)] ==
            IF i = 0 THEN {q}
            ELSE F[i - 1] \cup ({ns[x].next : x \in F[i - 1]} \ {Uninit})
    IN  F[Len(ns)]

\* within S every link is initialised and stays in S, and next and prev are
\* inverse to each other
WellFormed(ns, S) ==
    \A n \in S :
        /\ ns[n].next \in S /\ ns[n].prev \in S
        /\ ns[ns[n].next].prev = n /\ ns[ns[n].prev].next = n

\* ------------------------------------------- cyclic list, on drawn inputs
\* The fourth state machine applies push_back, push_front, extend_back,
\* extend_front and remove to well-formed lists, which CyclicList::new does
\* not build: MaxList nodes whose next
\* links are any permutation and whose prev links are its inverse (so the
\* nodes form one circle or several, singletons among them), and one call
\* on each.  lastCall is here the call made: op, the anchor, the node n
\* pushed, spliced in or removed, and the nodes as the call found them.
MaxList == 4

NoListCall == [op |-> "none", anchor |-> None, n |-> None, before |-> <<>>]

Bijections == {f \in [1..MaxList -> 1..MaxList] :
                    \A i, j \in 1..MaxList : f[i] = f[j] => i = j}

InitList ==
    \E f \in Bijections :
        /\ nodes = [i \in 1..MaxList |->
                       [Node_new(0, i) EXCEPT
                           !.next = f[i],
                           !.prev = CHOOSE j \in 1..MaxList : f[j] = i]]
        /\ heaps = [h \in {Tmp} \cup HeapIds |-> NoHeap]
        /\ flags = [c \in Cells |-> TRUE]
        /\ fixes = <<>>
        /\ crashed = FALSE
        /\ lastCall = NoListCall
        /\ ghost = [h \in HeapIds |-> NoGhost]
        /\ rd = IdleFrame
        /\ OthersIdle

\* what a call leaves behind
ListStep(W, call) ==
    /\ nodes' = W.nodes
    /\ crashed' = W.crashed
    /\ lastCall' = call
    /\ UNCHANGED <<heaps, flags, fixes, ghost, rd, others>>

\* anchor.push_back(n), n a singleton that is not the anchor
PushBack(bld, lucky, anchor, n) ==
    /\ ~crashed
    /\ lastCall = NoListCall
    /\ anchor # n
    /\ WellFormed(nodes, Circle(nodes, anchor))
    /\ nodes[n].next = n /\ nodes[n].prev = n
    /\ \E W \in {push_back(World(bld, 1, lucky), anchor, n)} :
          ListStep(W, [op |-> "push_back", anchor |-> anchor, n |-> n,
                       before |-> nodes])

\* anchor.push_front(n), n a singleton that is not the anchor
PushFront(bld, lucky, anchor, n) ==
    /\ ~crashed
    /\ lastCall = NoListCall
    /\ anchor # n
    /\ WellFormed(nodes, Circle(nodes, anchor))
    /\ nodes[n].next = n /\ nodes[n].prev = n
    /\ \E W \in {push_front(World(bld, 1, lucky), anchor, n)} :
          ListStep(W, [op |-> "push_front", anchor |-> anchor, n |-> n,
                       before |-> nodes])

\* anchor.extend_back(first), first in another circle than anchor
ExtendBack(bld, lucky, anchor, first) ==
    /\ ~crashed
    /\ lastCall = NoListCall
    /\ Circle(nodes, anchor) \cap Circle(nodes, first) = {}
    /\ WellFormed(nodes, Circle(nodes, anchor))
    /\ WellFormed(nodes, Circle(nodes, first))
    /\ \E W \in {extend_back(World(bld, 1, lucky), anchor, first)} :
          ListStep(W, [op |-> "extend_back", anchor |-> anchor, n |-> first,
                       before |-> nodes])

\* anchor.extend_front(first), first in another circle than anchor
ExtendFront(bld, lucky, anchor, first) ==
    /\ ~crashed
    /\ lastCall = NoListCall
    /\ Circle(nodes, anchor) \cap Circle(nodes, first) = {}
    /\ WellFormed(nodes, Circle(nodes, anchor))
    /\ WellFormed(nodes, Circle(nodes, first))
    /\ \E W \in {extend_front(World(bld, 1, lucky), anchor, first)} :
          ListStep(W, [op |-> "extend_front", anchor |-> anchor, n |-> first,
                       before |-> nodes])

\* n.remove(), n in a well-formed circle
Remove(bld, lucky, n) ==
    /\ ~crashed
    /\ lastCall = NoListCall
    /\ WellFormed(nodes, Circle(nodes, n))
    /\ \E W \in {remove(World(bld, 1, lucky), n)} :
          ListStep(W, [op |-> "remove", anchor |-> None, n |-> n,
                       before |-> nodes])

NextList ==
    \/ \E bld \in Builds, lucky \in BOOLEAN, anchor \in 1..MaxList,
          n \in 1..MaxList : PushBack(bld, lucky, anchor, n)
    \/ \E bld \in Builds, lucky \in BOOLEAN, anchor \in 1..MaxList,
          n \in 1..MaxList : PushFront(bld, lucky, anchor, n)
    \/ \E bld \in Builds, lucky \in BOOLEAN, anchor \in 1..MaxList,
          first \in 1..MaxList : ExtendBack(bld, lucky, anchor, first)
    \/ \E bld \in Builds, lucky \in BOOLEAN, anchor \in 1..MaxList,
          first \in 1..MaxList : ExtendFront(bld, lucky, anchor, first)
    \/ \E bld \in Builds, lucky \in BOOLEAN, n \in 1..MaxList :
          Remove(bld, lucky, n)

SpecList == InitList /\ [][NextList]_vars

\* ------------------------------------------------ order file maintenance
\* order/ofm.rs.  An Ofm value O has the fields of the struct (cell i of the
\* code is cells[i + 1], leaf l is occupied[l + 1]; an empty cell is None and
\* the elements are 1, 2, ...), the build that runs it and panic: a call has
\* panicked.  A Range a..b of the code is [start |-> a, end |-> b].
\* occupied[l] is never less than the number of elements in leaf l (each of
\* them was put by a cell_put), so the subtraction in cell_take stays in usize.
MaxPush == 9       \* calls of push_back and push_front on one Ofm

Rng(a, b) == [start |-> a, end |-> b]

is_some(c) == c # None

empty_array(n) == [i \in 1..n |-> None]

\* threshold(d, rho) with d = depth / height and rho = o / c: both
\* comparisons multiplied by 4 * height * c.  (No rho within MaxPush calls
\* is nearer than 1/48 to a limit, so f32 rounding decides nothing.)
threshold(depth, height, o, c) ==
    /\ 4 * height * o >= 2 * height * c - depth * c
    /\ 4 * height * o <= 3 * height * c + depth * c

Ofm_new(bld) ==
    [cells |-> empty_array(2), occupied |-> <<0, 0>>, leaf_size |-> 1,
     size |-> 0, build |-> bld, panic |-> FALSE]

leaf(O, i) ==
    LET divisor == IF O.leaf_size > 1 THEN O.leaf_size ELSE 1
    IN  <<i \div divisor, i % divisor>>

leaf_boundary(O, l) == Rng(l * O.leaf_size, (l + 1) * O.leaf_size)

\* the elements that cells_take(r) returns
taken(O, r) == SelectSeq(SubSeq(O.cells, r.start + 1, r.end), is_some)

\* what cells_take(r) leaves: each cell_take of an element empties the cell
\* and counts its leaf down; a cell outside the array is a panic
cells_take(V, r) ==
    CHOOSE res \in
        {IF O.panic \/ r.end > Len(O.cells) THEN [O EXCEPT !.panic = TRUE]
         ELSE [O EXCEPT
                 !.cells = [i \in 1..Len(O.cells) |->
                               IF i - 1 >= r.start /\ i - 1 < r.end THEN None
                               ELSE O.cells[i]],
                 !.occupied = [l \in 1..Len(O.occupied) |->
                     O.occupied[l] - Cardinality(
                         {i \in r.start..(r.end - 1) :
                             is_some(O.cells[i + 1]) /\ leaf(O, i)[1] = l - 1})]]
            : O \in {V}} : TRUE

\* redistribute(r, vs): vs[k] is put into cell r.start + (k - 1) * stride, a
\* later cell_put over an earlier one where the stride is 0, and every
\* cell_put counts its leaf up
redistribute(V, r, vs) ==
    CHOOSE res \in
        {IF O.panic \/ Len(vs) = 0 THEN [O EXCEPT !.panic = TRUE]
         ELSE LET stride == (r.end - r.start) \div Len(vs)
                  puts == {k \in 1..Len(vs) : TRUE}
              IN  [O EXCEPT
                     !.cells = [i \in 1..Len(O.cells) |->
                         LET ks == {k \in puts :
                                       r.start + (k - 1) * stride = i - 1}
                         IN  IF ks = {} THEN O.cells[i]
                             ELSE vs[CHOOSE k \in ks : \A j \in ks : j <= k]],
                     !.occupied = [l \in 1..Len(O.occupied) |->
                         O.occupied[l] + Cardinality(
                             {k \in puts :
                                 leaf(O, r.start + (k - 1) * stride)[1]
                                     = l - 1})]]
            : O \in {V}} : TRUE

rebalance(V, r) ==
    CHOOSE res \in {redistribute(cells_take(O, r), r, taken(O, r))
                        : O \in {V}} : TRUE

double(V) ==
    CHOOSE res \in
        {LET leaf_size == O.leaf_size + 1
             num_leaves == Len(O.occupied) * 2
             num_cells == leaf_size * num_leaves
         IN  redistribute([O EXCEPT !.leaf_size = leaf_size,
                                    !.occupied = [l \in 1..num_leaves |-> 0],
                                    !.cells = empty_array(num_cells)],
                          Rng(0, num_cells), SelectSeq(O.cells, is_some))
            : O \in {V}} : TRUE

\* conceptual_tree: Tree::range of the node (depth, offset), in leaves
range(height, depth, offset) ==
    LET width == 2 ^ (height - depth - 1)
    IN  Rng(offset * width, offset * width + width)

\* Node::sibling: the offset with its parity flipped
sibling(offset) == IF offset % 2 = 0 THEN offset + 1 ELSE offset - 1

RECURSIVE log2(_)
\* (n as f32).log2() as u32
log2(n) == IF n <= 1 THEN 0 ELSE 1 + log2(n \div 2)

RECURSIVE sum_occupied(_, _, _)
\* self.occupied[a..b].iter().sum()
sum_occupied(O, a, b) ==
    IF a >= b THEN 0 ELSE O.occupied[a + 1] + sum_occupied(O, a + 1, b)

RECURSIVE grow_loop(_, _, _, _, _, _)
\* one pass of the loop of grow at the node (depth, offset), o elements met
\* so far in c cells
grow_loop(V, height, depth, offset, o, c) ==
    CHOOSE res \in
        {LET r == range(height, depth, sibling(offset))
             c2 == c * 2
             o2 == o + sum_occupied(O, r.start, r.end)
             d == depth - 1                 \* node.parent()
             off == offset \div 2
         IN  IF d = 0 THEN double(O)
             ELSE IF threshold(d, height, o2, c2)
             THEN LET up == range(height, d - 1, off \div 2)
                  IN  rebalance(O, Rng(up.start * O.leaf_size,
                                       up.end * O.leaf_size))
             ELSE grow_loop(O, height, d, off, o2, c2)
            : O \in {V}} : TRUE

grow(V, l) ==
    CHOOSE res \in
        {IF O.panic \/ O.occupied[l + 1] # O.leaf_size THEN O
         ELSE LET leaves == Len(O.occupied)
                  height == log2(2 * leaves)
              IN  IF O.build = "debug" /\ 2 ^ height # 2 * leaves
                  THEN [O EXCEPT !.panic = TRUE]
                  ELSE grow_loop(O, height, height - 1, l,
                                 O.occupied[l + 1], O.leaf_size)
            : O \in {V}} : TRUE

\* vals.insert(at, v)
vec_insert(vals, at, v) ==
    SubSeq(vals, 1, at) \o <<v>> \o SubSeq(vals, at + 1, Len(vals))

\* insert after grow: the leaf's elements are taken, v is put among them
\* and they are spread over the leaf
insert_into_leaf(V, l, offset, v) ==
    CHOOSE res \in
        {IF O.panic THEN O
         ELSE LET r == leaf_boundary(O, l)
                  vals == taken(O, r)
                  num_vals == Len(vals)
                  at == IF offset < num_vals THEN offset ELSE num_vals
              IN  IF O.build = "debug" /\ num_vals = O.leaf_size
                  THEN [O EXCEPT !.panic = TRUE]
                  ELSE redistribute(cells_take(O, r), r,
                                    vec_insert(vals, at, v))
            : O \in {V}} : TRUE

Ofm_insert(V, i, v) ==
    CHOOSE res \in
        {LET at == leaf(O, i)
             end == i = Len(O.cells)
             l == IF end THEN at[1] - 1 ELSE at[1]
             offset == IF end THEN O.leaf_size - 1 ELSE at[2]
         IN  insert_into_leaf(grow([O EXCEPT !.size = @ + 1], l), l, offset, v)
            : O \in {V}} : TRUE

Ofm_push_front(O, v) == Ofm_insert(O, 0, v)

Ofm_push_back(O, v) == Ofm_insert(O, Len(O.cells), v)

\* what iterating the Ofm yields
Ofm_iter(O) == SelectSeq(O.cells, is_some)

\* ---------------------------------------------------- Ofm: state machine
\* The fifth state machine pushes 1, 2, ... to the front or the back of a
\* new Ofm.  lastCall is here the history of the calls: the last op, how
\* many calls were push_front and push_back, and `order`, the elements
\* pushed as a sequence takes them (a reference for the order).
SfibIdle ==
    /\ heaps = <<>> /\ nodes = <<>> /\ flags = <<>> /\ ghost = <<>>
    /\ fixes = <<>> /\ rd = IdleFrame

NoOfmCall == [op |-> "none", order |-> <<>>, fronts |-> 0, backs |-> 0]

InitOfm ==
    \E bld \in Builds :
        /\ ofm = Ofm_new(bld)
        /\ crashed = FALSE
        /\ lastCall = NoOfmCall
        /\ SfibIdle
        /\ arr = <<>> /\ iacono = <<>> /\ ll = <<>>

\* what a call leaves behind (a call that panics: what it found)
OfmStep(O, call) ==
    /\ ofm' = IF O.panic THEN [ofm EXCEPT !.panic = TRUE] ELSE O
    /\ crashed' = O.panic
    /\ lastCall' = call
    /\ UNCHANGED <<sfib, arr, iacono, ll>>

OfmPushBack ==
    /\ ~crashed
    /\ ofm.size < MaxPush
    /\ \E O \in {Ofm_push_back(ofm, ofm.size + 1)} :
          OfmStep(O, [lastCall EXCEPT
                         !.op = "push_back", !.backs = @ + 1,
                         !.order = Append(@, ofm.size + 1)])

OfmPushFront ==
    /\ ~crashed
    /\ ofm.size < MaxPush
    /\ \E O \in {Ofm_push_front(ofm, ofm.size + 1)} :
          OfmStep(O, [lastCall EXCEPT
                         !.op = "push_front", !.fronts = @ + 1,
                         !.order = <<ofm.size + 1>> \o @])

NextOfm == OfmPushBack \/ OfmPushFront

SpecOfm == InitOfm /\ [][NextOfm]_vars

\* ------------------------------------------------------------------ sorts
\* sort/quick.rs and sort/distribution.rs.  Index i of the code is a[i + 1];
\* indices are usize and wrap at USize.  A is the array a slice refers to
\* together with panic (the call has panicked) and ret (the last usize
\* returned).
MaxLen == 4        \* the arrays sorted have 0..MaxLen elements
MaxElem == 2       \* drawn from 0..MaxElem
M == 2             \* the in-memory threshold (4096 in the code)
sMB == 2           \* the number of pivots sampled (8 in the code)

\* array.swap(i, j)
swap(a, i, j) == [a EXCEPT ![i + 1] = a[j + 1], ![j + 1] = a[i + 1]]

RECURSIVE scan_up(_, _, _)
\* while array[i] < pivot { i = i.wrapping_add(1) }: the i it ends with, or
\* the first i outside the array
scan_up(a, pivot, i) ==
    IF i >= Len(a) THEN i
    ELSE IF a[i + 1] < pivot THEN scan_up(a, pivot, (i + 1) % USize) ELSE i

RECURSIVE scan_down(_, _, _)
\* while array[j] > pivot { j = j.wrapping_sub(1) }, likewise
scan_down(a, pivot, j) ==
    IF j >= Len(a) THEN j
    ELSE IF a[j + 1] > pivot THEN scan_down(a, pivot, (j - 1) % USize) ELSE j

RECURSIVE partition_loop(_, _, _, _)
\* one pass of the loop of partition, entered with i and j
partition_loop(V, pivot, i0, j0) ==
    CHOOSE res \in
        {LET i == scan_up(A.a, pivot, (i0 + 1) % USize)
             j == IF i >= Len(A.a) THEN i
                  ELSE scan_down(A.a, pivot, (j0 - 1) % USize)
         IN  IF i >= Len(A.a) \/ j >= Len(A.a) THEN [A EXCEPT !.panic = TRUE]
             ELSE IF i >= j THEN [A EXCEPT !.ret = j]
             ELSE partition_loop([A EXCEPT !.a = swap(@, i, j)], pivot, i, j)
            : A \in {V}} : TRUE

partition(A, lo, hi) ==
    IF lo >= Len(A.a) THEN [A EXCEPT !.panic = TRUE]     \* array[lo]
    ELSE partition_loop(A, A.a[lo + 1], (lo - 1) % USize, (hi + 1) % USize)

RECURSIVE quick_sort_range(_, _, _)
quick_sort_range(V, lo, hi) ==
    CHOOSE res \in
        {IF A.panic \/ ~(lo < hi) THEN A
         ELSE CHOOSE r \in
                 {IF P.panic THEN P
                  ELSE quick_sort_range(quick_sort_range(P, lo, P.ret),
                                        P.ret + 1, hi)
                     : P \in {partition(A, lo, hi)}} : TRUE
            : A \in {V}} : TRUE

\* len - 1 is checked in a debug build and wraps in a release build
quick_sort(array, bld) ==
    LET len == Len(array)
        A == [a |-> array, panic |-> FALSE, ret |-> 0]
    IN  IF len = 0 /\ bld = "debug" THEN [A EXCEPT !.panic = TRUE]
        ELSE quick_sort_range(A, 0, (len - 1) % USize)

\* s is in ascending order
IsSorted(s) == \A i, j \in 1..Len(s) : i < j => s[i] <= s[j]

\* s and t hold the same elements, each as often
SameElements(s, t) ==
    /\ Len(s) = Len(t)
    /\ \A e \in {s[i] : i \in 1..Len(s)} \cup {t[i] : i \in 1..Len(t)} :
          Cardinality({i \in 1..Len(s) : s[i] = e})
              = Cardinality({i \in 1..Len(t) : t[i] = e})

\* the standard library's sort_unstable, by its contract
sort_unstable(array) ==
    CHOOSE s \in [1..Len(array) -> {array[i] : i \in 1..Len(array)}] :
        IsSorted(s) /\ SameElements(s, array)

\* random_samples(array, k) followed by sort_unstable: every vector of k
\* elements of the array, in ascending order
random_samples(array, k) ==
    {s \in [1..k -> {array[i] : i \in 1..Len(array)}] : IsSorted(s)}

\* the partition the loop at lines 17-20 fills for pnum = p
partition_of(array, pivots, p) ==
    SelectSeq(array, LAMBDA ele :
        Cardinality({k \in 1..Len(pivots) : pivots[k] < ele}) = p)

\* an outcome of a call: it returned out, or it never returned
Returned(out) == [returned |-> TRUE, out |-> out]

Overflow == [returned |-> FALSE, out |-> <<>>]

RECURSIVE external_distribution_sort(_)
RECURSIVE extend_all(_, _, _)
\* the outputs of the loop at lines 23-25 from partition p on: every
\* outcome of the recursive call on p, followed by those of the rest
extend_all(array, pivots, p) ==
    IF p > Len(pivots) THEN {Returned(<<>>)}
    ELSE {IF x.returned /\ y.returned THEN Returned(x.out \o y.out)
          ELSE Overflow
             : x \in external_distribution_sort(partition_of(array, pivots, p)),
               y \in extend_all(array, pivots, p + 1)}

\* the outcomes of external_distribution_sort(array) over every choice of
\* the samples.  Where one partition takes the whole array, the recursive
\* call has the arguments of its caller: with the same samples drawn again
\* each time, the recursion never ends and the stack overflows; with other
\* samples drawn at some depth, the outcome is one the caller has with them.
external_distribution_sort(array) ==
    IF Len(array) <= M THEN {Returned(sort_unstable(array))}
    ELSE UNION {IF \E p \in 0..Len(pivots) :
                       partition_of(array, pivots, p) = array
                THEN {Overflow}
                ELSE extend_all(array, pivots, 0)
                   : pivots \in random_samples(array, sMB)}

\* -------------------------------------------------- sorts: state machine
\* The sixth state machine draws an array and sorts it once.  arr holds the
\* input, whether the call returned and its output; lastCall names the call.
Arrays == UNION {[1..n -> 0..MaxElem] : n \in 0..MaxLen}

InitSort ==
    \E input \in Arrays :
        /\ arr = [input |-> input, returned |-> FALSE, output |-> <<>>]
        /\ crashed = FALSE
        /\ lastCall = [op |-> "none"]
        /\ SfibIdle
        /\ ofm = <<>> /\ iacono = <<>> /\ ll = <<>>

QuickSort(bld) ==
    /\ lastCall.op = "none"
    /\ \E A \in {quick_sort(arr.input, bld)} :
          /\ arr' = [arr EXCEPT !.returned = ~A.panic,
                                !.output = IF A.panic THEN <<>> ELSE A.a]
          /\ crashed' = A.panic
    /\ lastCall' = [op |-> "quick_sort"]
    /\ UNCHANGED <<sfib, ofm, iacono, ll>>

DistributionSort ==
    /\ lastCall.op = "none"
    /\ \E x \in external_distribution_sort(arr.input) :
          /\ arr' = [arr EXCEPT !.returned = x.returned, !.output = x.out]
          /\ crashed' = ~x.returned
    /\ lastCall' = [op |-> "external_distribution_sort"]
    /\ UNCHANGED <<sfib, ofm, iacono, ll>>

NextSort == (\E bld \in Builds : QuickSort(bld)) \/ DistributionSort

SpecSort == InitSort /\ [][NextSort]_vars

\* ------------------------------------------------------------ linked list
\* order/linked_list.rs.  A LinkedList value L has front and back (an atom
\* or None) and the atoms that are alive, by address (1, 2, ...: Atom::new
\* takes the least free one), each with prev, next and value; an atom whose
\* last Rc is gone leaves `atoms`.  L.ret is what the last call returned and
\* L.panic that a call has panicked.
MaxAtoms == 4      \* atoms in one LinkedList
MaxVal == 1        \* their values are 0..MaxVal

LinkedList_new ==
    [atoms |-> <<>>, front |-> None, back |-> None, ret |-> None,
     panic |-> FALSE]

\* the address Atom::new gets
new_atom(L) ==
    CHOOSE a \in 1..(Cardinality(DOMAIN L.atoms) + 1) :
        /\ a \notin DOMAIN L.atoms
        /\ \A b \in 1..(a - 1) : b \in DOMAIN L.atoms

\* Atom::new(value) at address a
Atom_new(L, a, value) ==
    [L EXCEPT !.atoms = [b \in DOMAIN L.atoms \cup {a} |->
                            IF b = a
                            THEN [prev |-> None, next |-> None, value |-> value]
                            ELSE L.atoms[b]]]

\* the atom is dropped by its last owner
drop_atom(L, a) ==
    [L EXCEPT !.atoms = [b \in DOMAIN L.atoms \ {a} |-> L.atoms[b]]]

\* a.0.prev.set(v) and a.0.next.set(v), where a is Some
set_prev(L, a, v) == IF a = None THEN L ELSE [L EXCEPT !.atoms[a].prev = v]

\* set_next without its store
set_next_skipped(L, a, v) == L

set_next(L, a, v) == IF a = None THEN L ELSE [L EXCEPT !.atoms[a].next = v]

LinkedList_push_front(V, value) ==
    CHOOSE res \in
        {LET atom == new_atom(L)
             next == L.front
         IN  IF next # None
             THEN [set_next(set_prev(Atom_new(L, atom, value), next, atom),
                            atom, next) EXCEPT !.front = atom]
             ELSE [Atom_new(L, atom, value) EXCEPT
                      !.front = atom, !.back = atom]
            : L \in {V}} : TRUE

LinkedList_push_back(V, value) ==
    CHOOSE res \in
        {LET atom == new_atom(L)
             prev == L.back
         IN  IF prev # None
             THEN [set_prev(set_next(Atom_new(L, atom, value), prev, atom),
                            atom, prev) EXCEPT !.back = atom]
             ELSE [Atom_new(L, atom, value) EXCEPT
                      !.front = atom, !.back = atom]
            : L \in {V}} : TRUE

\* pop_front: L.ret is the value of the atom returned, which its caller
\* reads and drops
LinkedList_pop_front(V) ==
    CHOOSE res \in
        {LET front == L.front
             next == L.atoms[front].next
         IN  IF front = None \/ L.back = None THEN [L EXCEPT !.panic = TRUE]
             ELSE drop_atom(
                 IF front = L.back
                 THEN [L EXCEPT !.front = None, !.back = None,
                                !.ret = L.atoms[front].value]
                 ELSE [set_prev(set_next(L, front, None), next, None) EXCEPT
                          !.front = next, !.ret = L.atoms[front].value],
                 front)
            : L \in {V}} : TRUE

RECURSIVE atoms_from(_, _, _)
\* the atoms AtomIter yields from item on, at most n of them
atoms_from(L, item, n) ==
    IF item = None \/ n = 0 THEN <<>>
    ELSE <<item>> \o atoms_from(L, L.atoms[item].next, n - 1)

\* self.into_iter(); a list that runs in a circle is cut after one more
\* atom than there are
LinkedList_iter(L) ==
    atoms_from(L, L.front, Cardinality(DOMAIN L.atoms) + 1)

\* extract(atom), which takes the caller's Rc of the atom
LinkedList_extract(V, atom, bld) ==
    CHOOSE res \in
        {LET prev == L.atoms[atom].prev
             next == L.atoms[atom].next
             seen == {i \in 1..Len(LinkedList_iter(L)) :
                         LinkedList_iter(L)[i] = atom}
         IN  IF bld = "debug" /\ Cardinality(seen) # 1
             THEN [L EXCEPT !.panic = TRUE]
             ELSE drop_atom(
                 [set_prev(set_next(L, prev, next), next, prev) EXCEPT
                     !.front = IF L.front = atom THEN next ELSE @,
                     !.back = IF L.back = atom THEN prev ELSE @],
                 atom)
            : L \in {V}} : TRUE

\* the values the iterator yields
LinkedList_values(L) ==
    [i \in 1..Len(LinkedList_iter(L)) |-> L.atoms[LinkedList_iter(L)[i]].value]

\* --------------------------------------------- linked list: state machine
\* The seventh state machine pushes to, pops from and extracts from a new
\* LinkedList.  lastCall is here the last op and `ref`, a sequence that
\* takes the same operations.
InitLL ==
    /\ ll = LinkedList_new
    /\ crashed = FALSE
    /\ lastCall = [op |-> "none", ref |-> <<>>]
    /\ SfibIdle
    /\ ofm = <<>> /\ arr = <<>> /\ iacono = <<>>

\* what a call leaves behind (a call that panics: what it found)
LLStep(L, op, ref) ==
    /\ ll' = IF L.panic THEN [ll EXCEPT !.panic = TRUE] ELSE L
    /\ crashed' = L.panic
    /\ lastCall' = [op |-> op, ref |-> ref]
    /\ UNCHANGED <<sfib, ofm, arr, iacono>>

LLPushFront(value) ==
    /\ ~crashed
    /\ Len(lastCall.ref) < MaxAtoms
    /\ LLStep(LinkedList_push_front(ll, value), "push_front",
              <<value>> \o lastCall.ref)

LLPushBack(value) ==
    /\ ~crashed
    /\ Len(lastCall.ref) < MaxAtoms
    /\ LLStep(LinkedList_push_back(ll, value), "push_back",
              Append(lastCall.ref, value))

\* pop_front on a list that is not empty
LLPopFront ==
    /\ ~crashed
    /\ lastCall.ref # <<>>
    /\ LLStep(LinkedList_pop_front(ll), "pop_front", Tail(lastCall.ref))

\* extract of the i-th atom of the list
LLExtract(bld, i) ==
    /\ ~crashed
    /\ i \in 1..Len(LinkedList_iter(ll))
    /\ LLStep(LinkedList_extract(ll, LinkedList_iter(ll)[i], bld), "extract",
              SubSeq(lastCall.ref, 1, i - 1)
                  \o SubSeq(lastCall.ref, i + 1, Len(lastCall.ref)))

NextLL ==
    \/ \E value \in 0..MaxVal : LLPushFront(value)
    \/ \E value \in 0..MaxVal : LLPushBack(value)
    \/ LLPopFront
    \/ \E bld \in Builds, i \in 1..MaxAtoms : LLExtract(bld, i)

SpecLL == InitLL /\ [][NextLL]_vars

\* ----------------------------------------------------------------- Iacono
\* tree/iacono.rs.  A Bucket B has tree (the BTreeMap, a function from the
\* keys it holds to the atom and the value stored with each), list (a
\* LinkedList of the keys) and panic; an Iacono value T has buckets (bucket i
\* of the code is buckets[i + 1]), len, ret (what the last call returned,
\* None or a value) and panic.  A Repr is the key it points to: every Repr
\* stored points into the Box stored with it, which does not move.
MaxIKey == 5       \* the keys of an Iacono tree are 1..MaxIKey

\* the value inserted with a key: none is None, none is a key, and no two
\* keys have the same
value_of(key) == MaxIKey + key

Bucket_new == [tree |-> <<>>, list |-> LinkedList_new, panic |-> FALSE]

\* BTreeMap::insert and BTreeMap::remove
map_insert(tree, key, v) ==
    [k \in DOMAIN tree \cup {key} |-> IF k = key THEN v ELSE tree[k]]

map_remove(tree, key) == [k \in DOMAIN tree \ {key} |-> tree[k]]

Bucket_push(B, key, value) ==
    CHOOSE res \in
        {[B EXCEPT !.list = list, !.panic = @ \/ list.back = None,
                   !.tree = map_insert(@, key,
                                [atom |-> list.back, val |-> value])]
            : list \in {LinkedList_push_back(B.list, key)}} : TRUE

\* Bucket::pop: the bucket it leaves, and the key and value it returns (the
\* key is read from the atom that was popped)
Bucket_pop(B) ==
    CHOOSE res \in
        {IF list.panic \/ list.ret \notin DOMAIN B.tree
         THEN [bucket |-> [B EXCEPT !.panic = TRUE], key |-> None,
               val |-> None]
         ELSE [bucket |-> [B EXCEPT !.list = list,
                                    !.tree = map_remove(@, list.ret)],
               key |-> list.ret, val |-> B.tree[list.ret].val]
            : list \in {LinkedList_pop_front(B.list)}} : TRUE

\* Bucket::remove: the bucket it leaves and the value it returns
Bucket_remove(B, key, bld) ==
    IF key \notin DOMAIN B.tree
    THEN [bucket |-> [B EXCEPT !.panic = TRUE], val |-> None]
    ELSE CHOOSE res \in
            {[bucket |-> [B EXCEPT !.list = list, !.panic = @ \/ list.panic,
                                   !.tree = map_remove(@, key)],
              val |-> B.tree[key].val]
                : list \in {LinkedList_extract(B.list, B.tree[key].atom, bld)}}
            : TRUE

Iacono_new == [buckets |-> <<>>, len |-> 0, ret |-> None, panic |-> FALSE]

\* find_bucket: Some(i) is i + 1 here
find_bucket_zero(T, key) ==
    IF T.buckets # <<>> /\ key \in DOMAIN T.buckets[1].tree THEN 1 ELSE None

find_bucket(T, key) ==
    LET found == {i \in 1..Len(T.buckets) : key \in DOMAIN T.buckets[i].tree}
    IN  IF found = {} THEN None
        ELSE CHOOSE i \in found : \A j \in found : i <= j

\* self.buckets[index] = B
put_bucket(T, index, B) ==
    [T EXCEPT !.buckets[index + 1] = B, !.panic = @ \/ B.panic]

bucket_push(V, index, key, value) ==
    CHOOSE res \in
        {IF T.panic \/ index > Len(T.buckets) THEN [T EXCEPT !.panic = TRUE]
         ELSE CHOOSE r \in
                 {put_bucket(U, index, Bucket_push(U.buckets[index + 1],
                                                   key, value))
                     : U \in {IF index = Len(T.buckets)
                              THEN [T EXCEPT !.buckets = Append(@, Bucket_new)]
                              ELSE T}} : TRUE
            : T \in {V}} : TRUE

shift_single(V, index) ==
    CHOOSE res \in
        {IF T.panic THEN T
         ELSE CHOOSE r \in
                 {IF P.bucket.panic THEN [T EXCEPT !.panic = TRUE]
                  ELSE bucket_push(put_bucket(T, index, P.bucket), index + 1,
                                   P.key, P.val)
                     : P \in {Bucket_pop(T.buckets[index + 1])}} : TRUE
            : T \in {V}} : TRUE

RECURSIVE shift_from(_, _, _)
\* the loop of shift_multi(max) from index on
shift_from(V, index, max) ==
    CHOOSE res \in
        {IF T.panic \/ index >= max THEN T
         ELSE IF Cardinality(DOMAIN T.buckets[index + 1].tree) <= 2 ^ index
         THEN T
         ELSE shift_from(shift_single(T, index), index + 1, max)
            : T \in {V}} : TRUE

\* shift_multi that stops after bucket 0
shift_multi_once(T, max) == shift_from(T, 0, IF max > 1 THEN 1 ELSE max)

shift_multi(T, max) == shift_from(T, 0, max)

Iacono_insert(V, key, value) ==
    CHOOSE res \in
        {IF find_bucket(T, key) # None THEN T
         ELSE [bucket_push(shift_multi(T, Len(T.buckets)), 0, key, value)
                  EXCEPT !.len = @ + 1]
            : T \in {V}} : TRUE

Iacono_remove(V, key, bld) ==
    CHOOSE res \in
        {LET index == find_bucket(T, key) - 1
         IN  IF find_bucket(T, key) = None THEN [T EXCEPT !.ret = None]
             ELSE CHOOSE r \in
                     {[put_bucket(T, index, R.bucket) EXCEPT
                          !.len = @ - 1, !.ret = R.val]
                         : R \in {Bucket_remove(T.buckets[index + 1], key,
                                                bld)}} : TRUE
            : T \in {V}} : TRUE

\* get, after find_bucket found the key in bucket index and shift_multi ran
get_found(V, index, key, bld) ==
    CHOOSE res \in
        {IF T.panic THEN T
         ELSE CHOOSE r \in
                 {CHOOSE s \in
                     {IF U.panic THEN U
                      ELSE [U EXCEPT !.ret = U.buckets[1].tree[key].val]
                         : U \in {put_bucket(
                               put_bucket(T, index, R.bucket), 0,
                               Bucket_push(
                                   put_bucket(T, index, R.bucket).buckets[1],
                                   key, R.val))}} : TRUE
                     : R \in {Bucket_remove(T.buckets[index + 1], key, bld)}}
                 : TRUE
            : T \in {V}} : TRUE

Iacono_get(T, key, bld) ==
    IF find_bucket(T, key) = None THEN [T EXCEPT !.ret = None]
    ELSE get_found(shift_multi(T, find_bucket(T, key) - 1),
                   find_bucket(T, key) - 1, key, bld)

\* ---------------------------------------------------- Iacono: state machine
\* The eighth state machine inserts distinct keys into a new Iacono tree,
\* gets keys and removes keys.  lastCall is here the last op, the key and
\* what was returned if it was a get, and the history: held, the keys that
\* were inserted and not removed with the value inserted with each, and
\* inserts_only, no call so far was a get or a remove.
InitIacono ==
    /\ iacono = Iacono_new
    /\ crashed = FALSE
    /\ lastCall = [op |-> "none", key |-> None, ret |-> None, held |-> <<>>,
                   inserts_only |-> TRUE]
    /\ SfibIdle
    /\ ofm = <<>> /\ arr = <<>> /\ ll = <<>>

\* The addresses of the atoms are of no account.  After a call the atoms of
\* a bucket are renamed, the i-th of its list to i, and what pop_front
\* returned is forgotten; a bucket whose list does not run through all its
\* atoms is left as it is.
renamed(B) ==
    LET order == LinkedList_iter(B.list)
        n == Len(order)
        atoms == B.list.atoms
        at(a) == IF a = None THEN None ELSE CHOOSE i \in 1..n : order[i] = a
        refs == {B.list.front, B.list.back}
                    \cup {B.tree[k].atom : k \in DOMAIN B.tree}
                    \cup {atoms[a].prev : a \in DOMAIN atoms}
                    \cup {atoms[a].next : a \in DOMAIN atoms}
    IN  IF \/ n # Cardinality(DOMAIN atoms)
           \/ {order[i] : i \in 1..n} # DOMAIN atoms
           \/ ~(refs \subseteq DOMAIN atoms \cup {None})
        THEN B
        ELSE [B EXCEPT
                !.tree = [k \in DOMAIN B.tree |->
                             [B.tree[k] EXCEPT !.atom = at(@)]],
                !.list = [B.list EXCEPT
                    !.front = at(@), !.back = at(@), !.ret = None,
                    !.atoms = [i \in 1..n |->
                                  [prev |-> at(atoms[order[i]].prev),
                                   next |-> at(atoms[order[i]].next),
                                   value |-> atoms[order[i]].value]]]]

\* what a call leaves behind (a call that panics: what it found)
IaconoStep(T, op, key, held) ==
    /\ iacono' = IF T.panic THEN [iacono EXCEPT !.panic = TRUE]
                  ELSE [T EXCEPT !.ret = None,
                                 !.buckets = [i \in 1..Len(T.buckets) |->
                                                 renamed(T.buckets[i])]]
    /\ crashed' = T.panic
    /\ lastCall' = [op |-> op, key |-> IF op = "get" THEN key ELSE None,
                    ret |-> IF op = "get" THEN T.ret ELSE None, held |-> held,
                    inserts_only |-> lastCall.inserts_only /\ op = "insert"]
    /\ UNCHANGED <<sfib, ofm, arr, ll>>

\* insert of a key that is not in the tree
IaconoInsert(key) ==
    /\ ~crashed
    /\ key \notin DOMAIN lastCall.held
    /\ IaconoStep(Iacono_insert(iacono, key, value_of(key)), "insert", key,
                  map_insert(lastCall.held, key, value_of(key)))

IaconoGet(bld, key) ==
    /\ ~crashed
    /\ IaconoStep(Iacono_get(iacono, key, bld), "get", key, lastCall.held)

IaconoRemove(bld, key) ==
    /\ ~crashed
    /\ IaconoStep(Iacono_remove(iacono, key, bld), "remove", key,
                  map_remove(lastCall.held, key))

NextIacono ==
    \/ \E key \in 1..MaxIKey : IaconoInsert(key)
    \/ \E bld \in Builds, key \in 1..MaxIKey : IaconoGet(bld, key)
    \/ \E bld \in Builds, key \in 1..MaxIKey : IaconoRemove(bld, key)

SpecIacono == InitIacono /\ [][NextIacono]_vars

\* ------------------------------------------------------------ properties
\* the state between two calls, as the operators above read it
Now == World("release", 1, TRUE)

Range(seq) == {seq[i] : i \in 1..Len(seq)}

Min(S) == CHOOSE x \in S : \A y \in S : x <= y

\* the nodes reachable from root by following children
Reach(ns, root) ==
    LET F[i \in 0..Len(ns)] ==
            IF i = 0 THEN {root}
            ELSE F[i - 1] \cup UNION {Range(ns[x].children) : x \in F[i - 1]}
    IN  F[Len(ns)]

InHeap(h) == IF heaps[h].root = None THEN {} ELSE Reach(nodes, heaps[h].root)

\* how often child occurs in the children of node
Occurrences(node, child) ==
    Cardinality({i \in 1..Len(nodes[node].children) :
                    nodes[node].children[i] = child})

\* C1: after any sequence of insert and meld calls, min_key() of a heap that
\* keys were inserted into (directly or through a heap melded into it) is the
\* least of those keys.
C1_MinKey ==
    \A h \in HeapIds :
        heaps[h].live /\ ghost[h].keys # {}
            => min_key(Now, h) = <<Min(ghost[h].keys)>>

\* C1 happens: a heap of three nodes holding two different keys whose root was
\* allocated after another of its nodes (the minimum came in later).
C1_Witness ==
    \E h \in HeapIds :
        /\ heaps[h].live
        /\ heaps[h].size >= 3
        /\ Cardinality(ghost[h].keys) >= 2
        /\ \E n \in InHeap(h) : n < heaps[h].root

\* C2: every node that has a parent has a key greater than or equal to its
\* parent's key.
C2_HeapOrder ==
    \A n \in 1..Len(nodes) :
        nodes[n].parent # None => nodes[n].key >= nodes[nodes[n].parent].key

\* C2 happens: a former root, demoted under a node allocated after it, has a
\* key strictly greater than its parent's, and another child has an equal key.
C2_Witness ==
    \E n, m \in 1..Len(nodes) :
        /\ nodes[n].parent # None /\ n < nodes[n].parent
        /\ nodes[n].key > nodes[nodes[n].parent].key
        /\ nodes[m].parent # None
        /\ nodes[m].key = nodes[nodes[m].parent].key

\* C3: the size field of a heap is the number of nodes reachable from its
\* root by following children, and 0 when it has no root.
C3_Size ==
    \A h \in HeapIds :
        heaps[h].live => heaps[h].size = Cardinality(InHeap(h))

\* C3 happens: a heap of three nodes next to an empty one.
C3_Witness ==
    \E h, o \in HeapIds :
        /\ heaps[h].live /\ heaps[h].size = 3 /\ Cardinality(InHeap(h)) = 3
        /\ heaps[o].live /\ heaps[o].root = None /\ heaps[o].size = 0

\* C4: after A.meld(B) the size of A is the sum of the two sizes before the
\* call (also when A or B is empty), and when both were non-empty the minimum
\* key of A is the lesser of the two minimum keys before the call.
C4_MeldAdds ==
    /\ lastCall.melded =>
          /\ heaps[lastCall.h].size = lastCall.szSelf + lastCall.szOther
          /\ min_key(Now, lastCall.h)
                = <<Min({lastCall.minSelf[1], lastCall.minOther[1]})>>
    /\ \A h, o \in HeapIds :
          /\ h # o /\ heaps[h].live /\ heaps[o].live
          /\ heaps[h].root = None \/ heaps[o].root = None
          => \A W \in MeldOutcomes(h, o) :
                ~W.crashed => W.heaps[h].size = heaps[h].size + heaps[o].size

\* C4 happens: a heap of two nodes with the lesser minimum was melded into a
\* heap of one node.
C4_Witness ==
    /\ lastCall.melded
    /\ lastCall.szSelf = 1 /\ lastCall.szOther = 2
    /\ lastCall.minOther[1] < lastCall.minSelf[1]
    /\ heaps[lastCall.h].size = 3

\* C5: when meld combines two non-empty heaps of different sizes, it sets the
\* activity flag of the heap with fewer elements to false and does not write
\* the flag of the heap with more elements.
C5_SmallerPassive ==
    lastCall.melded =>
        /\ lastCall.szSelf < lastCall.szOther =>
              lastCall.wroteSelf /\ ~lastCall.flagSelf /\ ~lastCall.wroteOther
        /\ lastCall.szOther < lastCall.szSelf =>
              lastCall.wroteOther /\ ~lastCall.flagOther /\ ~lastCall.wroteSelf

\* C5 happens: self, the smaller heap and active until then, was made passive
\* by the meld.
C5_Witness ==
    /\ lastCall.melded
    /\ lastCall.szSelf < lastCall.szOther
    /\ lastCall.preSelf /\ lastCall.wroteSelf /\ ~lastCall.flagSelf

\* C6: when a 1-element heap is melded into a larger heap built by repeated
\* insert calls (2 elements or more), the larger heap's activity flag reads
\* true after the meld and the 1-element heap's flag reads false.
C6_LargerStaysActive ==
    /\ lastCall.melded /\ lastCall.byInsert
    /\ lastCall.szOther = 1 /\ lastCall.szSelf >= 2
    => lastCall.flagSelf /\ ~lastCall.flagOther

\* C7: no call leaves active a node that was passive when it began, and none
\* leaves true the activity flag of a heap that was false when it began.
C7_StaysPassive == ~lastCall.revived

\* C7 happens: a meld found the flag of self false and left it false.
C7_Witness ==
    /\ lastCall.melded
    /\ ~lastCall.preSelf /\ ~lastCall.flagSelf
    /\ \E n \in 1..Len(nodes) : is_passive(Now, n)

\* C8: for all budgets a, b, c, d and every heap state, a started call of
\* reduce(a, b, c, d) comes to an end (it returns, or the process aborts on
\* the overflow check of a debug build), and at no time have more than
\* a + b + c + d rule calls reported firing during it.
C8_ReduceTerminates ==
    /\ [](rd.fires <= rd.a0 + rd.b0 + rd.c0 + rd.d0)
    /\ (rd.pc = "loop") ~> (rd.pc = "done" \/ crashed)

\* C8 happens: a call with budgets 0, 1, 1, 1 has returned after three rules
\* fired in one pass and no budget was left.
C8_Witness ==
    /\ rd.pc = "done"
    /\ rd.a0 = 0 /\ rd.b0 = 1 /\ rd.c0 = 1 /\ rd.d0 = 1
    /\ rd.fires = 3 /\ rd.sum = 0

\* C9: a node occurs in the children of p exactly once if its parent reference
\* points to p and not at all otherwise; the root of a heap has no parent.
C9_ParentChildren ==
    /\ \A n, p \in 1..Len(nodes) :
          Occurrences(p, n) = IF nodes[n].parent = p THEN 1 ELSE 0
    /\ \A h \in HeapIds :
          heaps[h].root # None => nodes[heaps[h].root].parent = None

\* C9 happens: a root with two children.
C9_Witness ==
    \E h \in HeapIds :
        /\ heaps[h].root # None
        /\ Len(nodes[heaps[h].root].children) = 2
        /\ \A i \in 1..2 :
              nodes[nodes[heaps[h].root].children[i]].parent = heaps[h].root

\* C10: when a public operation starts, the rank descriptor of every node
\* reachable from a heap's root is a concrete integer or a pointer to a Fix
\* entry, never the unset value.
C10_RankResolvable ==
    \A h \in HeapIds :
        heaps[h].live => \A n \in InHeap(h) : nodes[n].rank.tag # "None"

C12_SingleRootActive ==
    \A h \in HeapIds :
        heaps[h].live /\ heaps[h].size = 1 /\ ghost[h].byInsert
            => is_active_root(Now, heaps[h].root)

\* C14: a call of root_degree_reduction that returns true leaves the root
\* of the heap with exactly one child fewer than it had.
C14_RootDegreeDrops ==
    lastCall.op = "root_degree_reduction" /\ lastCall.ret
        => Len(nodes[lastCall.n].children) = lastCall.before - 1

C13_QueueIsCircle ==
    lastCall.melded
        => /\ heaps[lastCall.h].q # None
           /\ Circle(nodes, heaps[lastCall.h].q) = ghost[lastCall.h].queued
           /\ WellFormed(nodes, ghost[lastCall.h].queued)

\* C16: meld with an empty argument leaves size, root, tree, activity flag and
\* queue of the receiver as they were; meld into an empty receiver makes them
\* those of the argument.
C16_MeldEmpty ==
    \A h, o \in HeapIds :
        h # o /\ heaps[h].live /\ heaps[o].live =>
            /\ heaps[o].root = None =>
                  \A W \in MeldOutcomes(h, o) :
                      /\ ~W.crashed
                      /\ W.heaps[h] = heaps[h]
                      /\ W.nodes = nodes
                      /\ W.flags[W.heaps[h].active] = flags[heaps[h].active]
            /\ heaps[h].root = None /\ heaps[o].root # None =>
                  \A W \in MeldOutcomes(h, o) :
                      /\ ~W.crashed
                      /\ W.heaps[h] = heaps[o]
                      /\ W.nodes = nodes
                      /\ W.flags[W.heaps[h].active] = flags[heaps[o].active]

\* C16 happens: a heap of two nodes, with a queue and a flag that reads
\* false, is melded into an empty heap, which then is what the argument was;
\* and the same heap is the receiver of a meld with an empty argument.
C16_Witness ==
    \E h, o \in HeapIds :
        /\ h # o /\ heaps[h].live /\ heaps[o].live
        /\ heaps[h].root = None
        /\ heaps[o].size = 2 /\ heaps[o].q # None /\ ~flags[heaps[o].active]
        /\ \E W \in MeldOutcomes(h, o) :
              W.heaps[h] = heaps[o] /\ ~W.heaps[o].live
        /\ \E W \in MeldOutcomes(o, h) :
              W.heaps[o] = heaps[o] /\ ~W.heaps[h].live

\* C17: new() yields a heap of size 0 without a root; on an empty heap
\* min_key, min_val and min_node return None, on a non-empty heap the key
\* and the value of the root and the root itself (each is a function of
\* &self: it has no heap to leave behind but the one it read).
C17_NewAndMin ==
    /\ \A h \in HeapIds :
          ~heaps[h].live =>
              \A W \in NewOutcomes(h) :
                  /\ ~W.crashed
                  /\ W.heaps[h].size = 0 /\ W.heaps[h].root = None
                  /\ min_key(W, h) = <<>>
                  /\ min_val(W, h) = <<>>
                  /\ min_node(W, h) = <<>>
    /\ \A h \in HeapIds :
          heaps[h].live =>
              IF ghost[h].keys = {}
              THEN /\ min_key(Now, h) = <<>>
                   /\ min_val(Now, h) = <<>>
                   /\ min_node(Now, h) = <<>>
              ELSE \E n \in 1..Len(nodes) :
                      /\ heaps[h].root = n
                      /\ nodes[n].parent = None
                      /\ min_key(Now, h) = <<nodes[n].key>>
                      /\ min_val(Now, h) = <<nodes[n].val>>
                      /\ min_node(Now, h) = <<n>>

\* C17 happens: next to an empty heap there is a heap of two nodes whose
\* root was inserted second, so that its value is not that of the other node.
C17_Witness ==
    \E h, o \in HeapIds :
        /\ heaps[o].live /\ ghost[o].keys = {} /\ min_node(Now, o) = <<>>
        /\ heaps[h].live /\ heaps[h].size = 2
        /\ min_node(Now, h) = <<2>> /\ min_val(Now, h) = <<2>>
        /\ nodes[1].val = 1 /\ nodes[1].parent = 2

\* the writes and rule calls of the longest path through insert and meld:
\* the node made a child (2), push_back and extend_back on the queue (4 link
\* writes each), and the rule calls of reduce(1, 1, 0, 0) (3)
WorkBound == 2 + 4 + 4 + 3

C19_NewIsSingle ==
    \A h \in HeapIds :
        heaps[h].live /\ heaps[h].size = 1 /\ ghost[h].byInsert
            => /\ nodes[heaps[h].root].prev = heaps[h].root
               /\ nodes[heaps[h].root].next = heaps[h].root
               /\ is_single(Now, heaps[h].root)

\* C20: on a well-formed list that holds anchor, and a singleton n outside
\* that circle, push_back(anchor, n) leaves a well-formed circle of the same
\* nodes and n with n right after anchor, push_front(anchor, n) one with n
\* right before anchor; the other nodes follow each other as before.
C20_PushKeepsCircle ==
    lastCall.op \in {"push_back", "push_front"} =>
        LET a == lastCall.anchor
            n == lastCall.n
            old == lastCall.before
            after == IF lastCall.op = "push_back" THEN a ELSE old[a].prev
        IN  /\ ~crashed
            /\ WellFormed(nodes, Circle(nodes, a))
            /\ Circle(nodes, a) = Circle(old, a) \cup {n}
            /\ nodes[after].next = n
            /\ nodes[n].next = old[after].next
            /\ lastCall.op = "push_back" => nodes[a].next = n
            /\ lastCall.op = "push_front" => nodes[n].next = a /\ nodes[a].prev = n
            /\ \A m \in 1..Len(nodes) \ {after, n} :
                  nodes[m].next = old[m].next

\* C20 happens: a node was pushed to the front of a circle of three, between
\* the anchor and the node that came before it.
C20_Witness ==
    /\ lastCall.op = "push_front"
    /\ Cardinality(Circle(lastCall.before, lastCall.anchor)) = 3
    /\ Cardinality(Circle(nodes, lastCall.anchor)) = 4
    /\ lastCall.before[lastCall.anchor].prev # lastCall.anchor
    /\ nodes[lastCall.anchor].prev = lastCall.n

\* C21: on two disjoint well-formed circles extend_back(anchor, first) and
\* extend_front(anchor, first) each leave one well-formed circle of exactly
\* the nodes of both; within each of the two the nodes follow each other as
\* before (only the link out of the anchor's side and the link out of the
\* last node of first's circle are new).
C21_ExtendJoins ==
    lastCall.op \in {"extend_back", "extend_front"} =>
        LET a == lastCall.anchor
            f == lastCall.n
            old == lastCall.before
            cut == IF lastCall.op = "extend_back" THEN a ELSE old[a].prev
            last == old[f].prev
        IN  /\ ~crashed
            /\ WellFormed(nodes, Circle(nodes, a))
            /\ Circle(nodes, a) = Circle(old, a) \cup Circle(old, f)
            /\ nodes[cut].next = f
            /\ nodes[last].next = old[cut].next
            /\ \A m \in 1..Len(nodes) \ {cut, last} :
                  nodes[m].next = old[m].next

\* C21 happens: a circle of two was joined to the front of a circle of two.
C21_Witness ==
    /\ lastCall.op = "extend_front"
    /\ Cardinality(Circle(lastCall.before, lastCall.anchor)) = 2
    /\ Cardinality(Circle(lastCall.before, lastCall.n)) = 2
    /\ Cardinality(Circle(nodes, lastCall.anchor)) = 4
    /\ nodes[lastCall.anchor].prev = lastCall.before[lastCall.n].prev

\* C22: remove(n) on a well-formed circle of two nodes or more leaves the
\* other nodes a well-formed circle without n in which they follow each other
\* as before; on a singleton it changes nothing.
C22_RemoveCloses ==
    lastCall.op = "remove" =>
        LET n == lastCall.n
            old == lastCall.before
            rest == Circle(old, n) \ {n}
        IN  /\ ~crashed
            /\ rest = {} => nodes = old
            /\ WellFormed(nodes, rest)
            /\ \A m \in rest :
                  /\ Circle(nodes, m) = rest
                  /\ nodes[m].next = IF old[m].next = n THEN old[n].next
                                     ELSE old[m].next
            /\ \A m \in 1..Len(nodes) \ (rest \cup {n}) : nodes[m] = old[m]

\* C22 happens: a node was removed from a circle of three, and the two
\* others are a circle of two.
C22_Witness ==
    /\ lastCall.op = "remove"
    /\ Cardinality(Circle(lastCall.before, lastCall.n)) = 3
    /\ \E m \in 1..Len(nodes) :
          /\ m # lastCall.n
          /\ Cardinality(Circle(nodes, m)) = 2
          /\ lastCall.n \notin Circle(nodes, m)
          /\ lastCall.before[m].next = lastCall.n

\* C23: after push_back calls alone on a new Ofm, no call has panicked and
\* iterating yields the pushed elements in the order of the calls.
C23_PushBackOrder ==
    lastCall.op # "none" /\ lastCall.fronts = 0
        => ~crashed /\ Ofm_iter(ofm) = lastCall.order

\* C24: after push_front calls alone on a new Ofm, no call has panicked and
\* iterating yields the pushed elements in the reverse order of the calls.
C24_PushFrontOrder ==
    lastCall.op # "none" /\ lastCall.backs = 0
        => ~crashed /\ Ofm_iter(ofm) = lastCall.order

\* C25: quick_sort returns on every array, the empty one included, and
\* leaves it in ascending order with the elements it had.
C25_QuickSorts ==
    lastCall.op = "quick_sort"
        => /\ arr.returned
           /\ IsSorted(arr.output)
           /\ SameElements(arr.output, arr.input)

\* C26: external_distribution_sort returns on every array, whatever the
\* samples, and its result is the input in ascending order.
C26_DistributionSorts ==
    lastCall.op = "external_distribution_sort"
        => /\ arr.returned
           /\ arr.output = sort_unstable(arr.input)

\* C29: after any push_front, push_back, pop_front of a list that is not
\* empty and extract of an atom of the list, no call has panicked, iterating
\* the LinkedList from the front yields the reference sequence, and front()
\* and back() are its first and its last element (None when it is empty).
C29_ListIsSequence ==
    lastCall.op # "none" =>
        /\ ~crashed
        /\ LinkedList_values(ll) = lastCall.ref
        /\ IF lastCall.ref = <<>> THEN ll.front = None /\ ll.back = None
           ELSE /\ ll.front # None /\ ll.back # None
                /\ ll.front \in DOMAIN ll.atoms /\ ll.back \in DOMAIN ll.atoms
                /\ ll.back = LinkedList_iter(ll)[Len(lastCall.ref)]
                /\ ll.atoms[ll.front].value = Head(lastCall.ref)
                /\ ll.atoms[ll.back].value = lastCall.ref[Len(lastCall.ref)]

\* C29 happens: an extract left a list of two atoms, front and back, that
\* follow each other, and the address of the first atom made is free again.
C29_Witness ==
    /\ lastCall.op = "extract"
    /\ Len(lastCall.ref) = 2
    /\ ll.front # ll.back
    /\ ll.atoms[ll.front].next = ll.back
    /\ LinkedList_values(ll) = <<0, 1>>
    /\ 1 \notin DOMAIN ll.atoms

\* C27: a get of a key that was inserted and not removed returns the value
\* inserted with it, a get of any other key returns nothing, and no call
\* panics.
C27_GetReturnsInserted ==
    /\ ~crashed
    /\ lastCall.op = "get" =>
          lastCall.ret = IF lastCall.key \in DOMAIN lastCall.held
                         THEN lastCall.held[lastCall.key] ELSE None

\* C27 happens: a get returned the value of its key, which is now the last
\* of bucket 0, in a tree of three buckets.
C27_Witness ==
    /\ lastCall.op = "get"
    /\ lastCall.ret # None
    /\ Len(iacono.buckets) = 3
    /\ lastCall.key \in DOMAIN iacono.buckets[1].tree
    /\ iacono.buckets[1].list.atoms[iacono.buckets[1].list.back].value
          = lastCall.key
    /\ lastCall.ret = value_of(lastCall.key)

\* C28: bucket 0 holds at most 2 entries and bucket i >= 1 at most 2^i; after
\* inserts alone every bucket before the last holds as many.
C28_BucketSizes ==
    \A i \in 1..Len(iacono.buckets) :
        LET size == Cardinality(DOMAIN iacono.buckets[i].tree)
            cap == IF i = 1 THEN 2 ELSE 2 ^ (i - 1)
        IN  /\ size <= cap
            /\ lastCall.inserts_only /\ i < Len(iacono.buckets) => size = cap

\* C28 happens: five inserts alone filled buckets 0 and 1 and opened bucket
\* 2.
C28_Witness ==
    /\ lastCall.inserts_only
    /\ iacono.len = 5
    /\ Len(iacono.buckets) = 3
    /\ Cardinality(DOMAIN iacono.buckets[2].tree) = 2
    /\ Cardinality(DOMAIN iacono.buckets[3].tree) = 1

\* C30: in every meld of two heaps that are not empty, the meld of an insert
\* included, both roots are passive where the two debug_assert!s are.
C30_MeldAssertsHold == lastCall.melded => lastCall.passive

\* C30 happens: a meld with a heap of two nodes (no insert melds with one)
\* went past the assertions.
C30_Witness ==
    /\ lastCall.melded /\ lastCall.passive
    /\ lastCall.szSelf >= 1 /\ lastCall.szOther >= 2

\* C31: whatever push_front and push_back calls a new Ofm has taken, in the
\* next call of either the leaf that insert takes after grow holds fewer
\* than leaf_size elements (the debug_assert! of insert), and no element
\* pushed has been overwritten or lost: iterating yields as many as `size`.
C31_InsertAssertHolds ==
    ~crashed
        => /\ Len(Ofm_iter(ofm)) = ofm.size
           /\ \A i \in {0, Len(ofm.cells)} :
                 LET at == leaf(ofm, i)
                     l == IF i = Len(ofm.cells) THEN at[1] - 1 ELSE at[1]
                     G == grow([ofm EXCEPT !.size = @ + 1], l)
                     num_vals == Len(taken(G, leaf_boundary(G, l)))
                 IN  ~G.panic => num_vals # G.leaf_size

====
